---- MODULE Spec2Model ----
(***************************************************************************)
(* Model of src/src/App.tsx: the lineup booking page.  One App instance    *)
(* (one browser tab of one device) with its React state, the remote        *)
(* tables it talks to (bookings, bench, match_settings, auth) and the      *)
(* asynchronous handlers whose awaits are still pending.  Every handler    *)
(* runs synchronously up to its first await (one action); every await is   *)
(* a pending task whose completion (remote effect + continuation up to     *)
(* the next await) is one further action.                                  *)
(*                                                                         *)
(* Handlers are modelled as the entry points they are: their guards are    *)
(* the conditions and early returns of their own code and their arguments  *)
(* are inputs drawn from small sets.  force: true is what the admin view   *)
(* passes, so a forced call stands for the privileged caller.              *)
(***************************************************************************)
EXTENDS Integers, Sequences, FiniteSets, TLC

(* ---------------------------------------------------------------- bounds *)
MaxBench == 2        \* longest local bench queue explored
MaxInflight == 2     \* pending handler requests explored at one time
MaxBenchId == 2      \* bench rows the remote table hands ids to
MaxClock == 1        \* ticks of the millisecond clock explored
MaxLoads == 2        \* page loads explored (the first one included)
MaxOps == 4          \* user actions (clicks, page reloads) explored in one run
MaxLocalOps == 5     \* user operations explored when the gateway is not configured

(* ------------------------------------------------------- fixed constants *)
Teams == {"red", "green"}
TeamOrder == <<"red", "green">>

baseSlots ==
  << [key |-> "GK",  label |-> "goalkeeper",   line |-> "GK"],
     [key |-> "LB",  label |-> "left back",    line |-> "DEF"],
     [key |-> "CB1", label |-> "centre back 1", line |-> "DEF"],
     [key |-> "CB2", label |-> "centre back 2", line |-> "DEF"],
     [key |-> "RB",  label |-> "right back",   line |-> "DEF"],
     [key |-> "CM1", label |-> "midfield 1",   line |-> "MID"],
     [key |-> "CM2", label |-> "midfield 2",   line |-> "MID"],
     [key |-> "CAM", label |-> "playmaker",    line |-> "MID"],
     [key |-> "ST",  label |-> "striker",      line |-> "ATT"] >>

Keys == {baseSlots[i].key : i \in 1..Len(baseSlots)}

(* JavaScript values that have no TLA+ counterpart of the same type.       *)
Undefined == <<"undefined">>   \* playerName: undefined (names are char sequences)
NullV == "null"                \* a null string column / field
NoRating == 0                  \* rating: null (real ratings are 5..10)
NoKey == "none"                \* selectedKey: null

(* ------------------------------------------------------------ input sets *)
Devices == {"X", "Y"}          \* device identifiers found in localStorage
ActiveKeys == {"GK", "ST"}     \* position keys the explored clicks act on
RawNames == { <<" ">>, <<"A", " ">>, <<" ", "B">> }   \* text typed in a dialog
Results == {"ok", "error", "throw"}   \* outcome of one remote call
TempBase == 100                \* Date.now() is far above any serial id

(* --------------------------------------------------------- String.trim() *)
RECURSIVE TrimStart(_)
TrimStart(s) ==
  IF s = <<>> THEN s
  ELSE IF Head(s) = " " THEN TrimStart(Tail(s)) ELSE s

RECURSIVE TrimEnd(_)
TrimEnd(s) ==
  IF s = <<>> THEN s
  ELSE IF s[Len(s)] = " " THEN TrimEnd(SubSeq(s, 1, Len(s) - 1)) ELSE s

Trim(s) == TrimEnd(TrimStart(s))

(* JavaScript truthiness of a string-or-null value *)
Truthy(s) == s \notin {"", NullV}

(* a ?? b *)
Coalesce(a, b) == IF a = NullV THEN b ELSE a

(* ------------------------------------------------------------ local state *)
EmptySlot(b) ==
  [key |-> b.key, label |-> b.label, line |-> b.line,
   booked |-> FALSE, playerName |-> Undefined, rating |-> NoRating,
   tags |-> <<>>, note |-> "", paymentStatus |-> "unpaid", sessionId |-> ""]

makeInitialTeamSlots ==
  [t \in Teams |-> [i \in 1..Len(baseSlots) |-> EmptySlot(baseSlots[i])]]

(* array.find(s => s.key === key); the keys of a team array are unique *)
FindSlot(slots, key) ==
  LET idx == {i \in 1..Len(slots) : slots[i].key = key}
  IN  slots[CHOOSE i \in idx : \A j \in idx : i <= j]

(* array.filter(b => b.id !== id) *)
RECURSIVE FilterOutId(_, _)
FilterOutId(q, id) ==
  IF q = <<>> THEN <<>>
  ELSE IF Head(q).id = id THEN FilterOutId(Tail(q), id)
       ELSE <<Head(q)>> \o FilterOutId(Tail(q), id)

VARIABLES
  teamSlots,        \* useState<TeamSlots>
  bench,            \* useState<BenchPlayer[]>
  selectedTeam,     \* useState<TeamId>
  selectedKey,      \* useState<BookingPositionKey | null>
  tempName,         \* useState("") of the booking dialog
  isBenchModalOpen, \* useState(false)
  benchTempName,    \* useState("") of the bench dialog
  dbStatus,         \* "idle" | "loading" | "ready" | "error" | "disabled"
  isAdminLoggedIn,  \* useState(false)
  sessionId,        \* device identifier of this tab
  matchInfo,        \* matchName / stadiumName / matchTime
  alertMsg,         \* message shown by the step just taken ("" if none)
  inflight,         \* pending awaits of this tab, in issue order
  clock,            \* Date.now() - TempBase
  loads,            \* page loads so far
  configured,       \* isSupabaseConfigured && supabase
  rBookings,        \* remote table bookings, keyed by (team, position_key)
  rBench,           \* remote table bench, ascending id
  rNextId,          \* next serial id of the bench table
  rMatch,           \* remote row match_settings id = 1
  authStored,       \* devices whose browser holds a stored auth session
  ops               \* user operations so far

vars == <<teamSlots, bench, selectedTeam, selectedKey, tempName,
          isBenchModalOpen, benchTempName, dbStatus, isAdminLoggedIn,
          sessionId, matchInfo, alertMsg, inflight, clock, loads, configured,
          rBookings, rBench, rNextId, rMatch, authStored, ops>>

localUi == <<selectedTeam, selectedKey, tempName, isBenchModalOpen, benchTempName>>
remote == <<rBookings, rBench, rNextId, rMatch, authStored>>

(* ----------------------------------------------------------- remote rows *)
NullTags == <<NullV>>          \* tags: null

NoRow ==
  [present |-> FALSE, player_name |-> Undefined, rating |-> NoRating,
   tags |-> NullTags, note |-> NullV, payment_status |-> NullV,
   session_id |-> NullV]

(* team and position_key are text columns: a row may name a team or a key *)
(* the page does not know                                                 *)
RowTeams == Teams \cup {"blue"}
RowKeys == Keys \cup {"XX"}

EmptyBookings == [p \in RowTeams \X RowKeys |-> NoRow]

(* What the remote tables hold when the page is opened: nothing, what     *)
(* other devices booked (one position owned by device Y, one row of an     *)
(* earlier release that recorded no device identifier, one bench row of    *)
(* device Z), or what this device booked in an earlier visit (rated and    *)
(* marked paid by the administrator since).                                *)
OthersBookings ==
  [EmptyBookings EXCEPT
     ![<<"red", "GK">>] = [NoRow EXCEPT !.present = TRUE, !.player_name = <<"C">>,
                                        !.session_id = "Y"],
     ![<<"green", "ST">>] = [NoRow EXCEPT !.present = TRUE, !.player_name = <<"L">>]]

OthersBench == << [id |-> 1, player_name |-> <<"D">>, session_id |-> "Z"] >>

OwnBookings ==
  [EmptyBookings EXCEPT
     ![<<"red", "ST">>] = [present |-> TRUE, player_name |-> <<"A">>, rating |-> 7,
                           tags |-> <<"fast">>, note |-> "late",
                           payment_status |-> "paid", session_id |-> "X"]]

(* a table with a row of an unknown team, a row of an unknown key, and a   *)
(* row of green/LB                                                         *)
StrayBookings ==
  [EmptyBookings EXCEPT
     ![<<"blue", "GK">>] = [NoRow EXCEPT !.present = TRUE, !.player_name = <<"S">>,
                                         !.session_id = "Z"],
     ![<<"red", "XX">>] = [NoRow EXCEPT !.present = TRUE, !.player_name = <<"T">>,
                                        !.session_id = "Z"],
     ![<<"green", "LB">>] = [NoRow EXCEPT !.present = TRUE, !.player_name = <<"C">>,
                                          !.session_id = "Y"]]

StraySeeds == { [bookings |-> StrayBookings, bench |-> <<>>] }

Seeds ==
  { [bookings |-> EmptyBookings, bench |-> <<>>],
    [bookings |-> OthersBookings, bench |-> OthersBench],
    [bookings |-> OwnBookings, bench |-> <<>>] }

DefaultMatch == [name |-> "default", stadium |-> "default", time |-> "default"]
NoMatchRow == [present |-> FALSE, match_name |-> NullV, stadium_name |-> NullV,
               match_time |-> NullV]

(* an insert that leaves a conflicting row as it is *)
UpsertBooking_KeepFirst(tbl, team, key, name, sid) ==
  [tbl EXCEPT ![<<team, key>>] =
     IF @.present THEN @
     ELSE [@ EXCEPT !.present = TRUE, !.player_name = name, !.session_id = sid]]

(* upsert({team, position_key, player_name, session_id},                   *)
(*        {onConflict: "team,position_key"}): a conflicting row keeps the   *)
(* columns the payload does not name; a new row has them null.             *)
UpsertBooking(tbl, team, key, name, sid) ==
  [tbl EXCEPT ![<<team, key>>] =
     [@ EXCEPT !.present = TRUE, !.player_name = name, !.session_id = sid]]

(* update(payload).match({team, position_key}) *)
UpdateBooking(tbl, team, key, payload) ==
  [tbl EXCEPT ![<<team, key>>] =
     IF @.present
     THEN [f \in DOMAIN @ |-> IF f \in DOMAIN payload THEN payload[f] ELSE @[f]]
     ELSE @]

(* delete().match({team, position_key}) *)
DeleteBooking(tbl, team, key) == [tbl EXCEPT ![<<team, key>>] = NoRow]

(* ----------------------------------------------------------------- tasks *)
NoTeam == "none"
NoPayload == [none |-> TRUE]

Task(kind, pc, team, key, name, sid, id, payload) ==
  [kind |-> kind, pc |-> pc, team |-> team, key |-> key, name |-> name,
   sid |-> sid, id |-> id, payload |-> payload]

SimpleTask(kind, pc) == Task(kind, pc, NoTeam, NoKey, Undefined, "", 0, NoPayload)

StartupKinds == {"load", "checkSession"}

(* pending awaits issued by user handlers (the startup effects excluded) *)
HandlerTasks == {i \in 1..Len(inflight) : inflight[i].kind \notin StartupKinds}

CanIssue == Cardinality(HandlerTasks) < MaxInflight

RemoveAt(q, i) == SubSeq(q, 1, i - 1) \o SubSeq(q, i + 1, Len(q))
ReplaceAt(q, i, t) == [q EXCEPT ![i] = t]

(* mount effects that call the gateway also when it is not configured *)
StartupTasks_AlwaysLoads(cfg) ==
  << SimpleTask("load", "bookings"), SimpleTask("checkSession", "getSession") >>

(* the two mount effects: loadFromSupabase up to its first await, and      *)
(* checkSession up to its await                                            *)
StartupTasks(cfg) ==
  IF cfg THEN << SimpleTask("load", "bookings"), SimpleTask("checkSession", "getSession") >>
  ELSE <<>>

(* ------------------------------------------------------ derived (useMemo) *)
(* slots.filter(s => s.booked).length *)
RECURSIVE CountBooked(_)
CountBooked(slots) ==
  IF slots = <<>> THEN 0
  ELSE (IF Head(slots).booked THEN 1 ELSE 0) + CountBooked(Tail(slots))

(* a summary whose remaining count forgets the booked positions *)
build_RemainingIsTotal(team) ==
  [total |-> Len(teamSlots[team]),
   bookedCount |-> CountBooked(teamSlots[team]),
   remaining |-> Len(teamSlots[team])]

(* the per-team summary of the stats memo *)
build(team) ==
  [total |-> Len(teamSlots[team]),
   bookedCount |-> CountBooked(teamSlots[team]),
   remaining |-> Len(teamSlots[team]) - CountBooked(teamSlots[team])]

stats ==
  [red |-> build("red"),
   green |-> build("green"),
   totalAll |-> build("red").bookedCount + build("green").bookedCount]

NoBooking == [found |-> FALSE, team |-> NoTeam, key |-> NoKey]

RECURSIVE FirstOwned(_, _, _)
FirstOwned(slots, i, sid) ==
  IF i > Len(slots) THEN NoKey
  ELSE IF slots[i].booked /\ slots[i].sessionId = sid THEN slots[i].key
       ELSE FirstOwned(slots, i + 1, sid)

deviceBooking ==
  IF ~Truthy(sessionId) THEN NoBooking
  ELSE IF FirstOwned(teamSlots["red"], 1, sessionId) # NoKey
       THEN [found |-> TRUE, team |-> "red",
             key |-> FirstOwned(teamSlots["red"], 1, sessionId)]
  ELSE IF FirstOwned(teamSlots["green"], 1, sessionId) # NoKey
       THEN [found |-> TRUE, team |-> "green",
             key |-> FirstOwned(teamSlots["green"], 1, sessionId)]
  ELSE NoBooking

deviceBenchEntry ==
  IF ~Truthy(sessionId) THEN FALSE
  ELSE \E i \in 1..Len(bench) : bench[i].sessionId = sessionId

canCurrentDeviceCancel(slot) ==
  IF ~slot.booked THEN FALSE
  ELSE IF ~Truthy(slot.sessionId) \/ ~Truthy(sessionId) THEN TRUE
  ELSE slot.sessionId = sessionId

canCurrentDeviceCancelBench(player) ==
  IF ~Truthy(sessionId) THEN FALSE
  ELSE IF ~Truthy(player.sessionId) THEN TRUE
  ELSE player.sessionId = sessionId

(* ------------------------------------------------------------------ Init *)
InitFrom(cfg, seeds) ==
  /\ configured = cfg
  /\ teamSlots = makeInitialTeamSlots
  /\ bench = <<>>
  /\ selectedTeam = "red"
  /\ selectedKey = NoKey
  /\ tempName = <<>>
  /\ isBenchModalOpen = FALSE
  /\ benchTempName = <<>>
  /\ dbStatus = IF configured THEN "loading" ELSE "disabled"
  /\ isAdminLoggedIn = FALSE
  /\ sessionId = "X"
  /\ matchInfo = DefaultMatch
  /\ alertMsg = ""
  /\ inflight = StartupTasks(configured)
  /\ clock = 0
  /\ loads = 1
  /\ \E seed \in seeds :
       /\ rBookings = seed.bookings
       /\ rBench = seed.bench
       /\ rNextId = Len(seed.bench) + 1
  /\ rMatch = NoMatchRow
  /\ authStored = {}
  /\ ops = 0

InitLocal(cfg) == InitFrom(cfg, Seeds)

(* the deployment the specification describes: the gateway is configured *)
Init == InitLocal(TRUE)

(* ------------------------------------------------- booking dialog (inline) *)
(* the dialog's cancel button *)
CloseBookingDialog ==
  /\ selectedKey # NoKey
  /\ selectedKey' = NoKey
  /\ tempName' = <<>>
  /\ alertMsg' = ""
  /\ UNCHANGED <<teamSlots, bench, selectedTeam, isBenchModalOpen,
                 benchTempName, dbStatus, isAdminLoggedIn, sessionId, matchInfo,
                 inflight, clock, loads, configured, remote>>

handleOpenBooking(key) ==
  /\ IF deviceBooking.found
        /\ ~(deviceBooking.team = selectedTeam /\ deviceBooking.key = key)
     THEN /\ alertMsg' = "one_position_only"
          /\ UNCHANGED <<selectedKey, tempName>>
     ELSE IF deviceBenchEntry
     THEN /\ alertMsg' = "on_bench"
          /\ UNCHANGED <<selectedKey, tempName>>
     ELSE /\ selectedKey' = key
          /\ tempName' = <<>>
          /\ alertMsg' = ""
  /\ UNCHANGED <<teamSlots, bench, selectedTeam, isBenchModalOpen,
                 benchTempName, dbStatus, isAdminLoggedIn, sessionId, matchInfo,
                 inflight, clock, loads, configured, remote>>

handleSwitchTeam(team) ==
  /\ selectedTeam' = team
  /\ selectedKey' = NoKey
  /\ tempName' = <<>>
  /\ alertMsg' = ""
  /\ UNCHANGED <<teamSlots, bench, isBenchModalOpen,
                 benchTempName, dbStatus, isAdminLoggedIn, sessionId, matchInfo,
                 inflight, clock, loads, configured, remote>>

(* the team buttons of the share view: setSelectedTeam(team) only *)
ShareSelectTeam(team) ==
  /\ selectedTeam' = team
  /\ alertMsg' = ""
  /\ UNCHANGED <<teamSlots, bench, selectedKey, tempName, isBenchModalOpen,
                 benchTempName, dbStatus, isAdminLoggedIn, sessionId, matchInfo,
                 inflight, clock, loads, configured, remote>>

(* { ...s, booked: true, playerName, sessionId } *)
(* a claim that records the name but not the owner *)
BookSlot_NoOwner(s, name, sid) ==
  [s EXCEPT !.booked = TRUE, !.playerName = name]

BookSlot(s, name, sid) ==
  [s EXCEPT !.booked = TRUE, !.playerName = name, !.sessionId = sid]

(* a claim whose local change is not applied *)
ClaimSlots_NotApplied(slots, team, key, name, sid) == slots

ClaimSlots(slots, team, key, name, sid) ==
  [slots EXCEPT ![team] = [i \in 1..Len(@) |->
                IF @[i].key = key THEN BookSlot(@[i], name, sid) ELSE @[i]]]

(* the guard of handleConfirmBooking that lets the claim go on *)
ConfirmBookingAllowed == ~deviceBenchEntry

(* The user types `typed` into the dialog's input (onChange:               *)
(* setTempName(e.target.value)) and presses the confirm button.            *)
handleConfirmBooking(typed) ==
  IF selectedKey = NoKey
  THEN /\ alertMsg' = ""
       /\ UNCHANGED <<teamSlots, bench, localUi, dbStatus, isAdminLoggedIn,
                      sessionId, matchInfo, inflight, clock, loads, configured,
                      remote>>
  ELSE IF Trim(typed) = <<>>
  THEN /\ tempName' = typed
       /\ alertMsg' = ""
       /\ UNCHANGED <<teamSlots, bench, selectedTeam, selectedKey,
                      isBenchModalOpen, benchTempName, dbStatus, isAdminLoggedIn,
                      sessionId, matchInfo, inflight, clock, loads, configured,
                      remote>>
  ELSE IF ~ConfirmBookingAllowed
  THEN /\ tempName' = typed
       /\ alertMsg' = "on_bench"
       /\ UNCHANGED <<teamSlots, bench, selectedTeam, selectedKey,
                      isBenchModalOpen, benchTempName, dbStatus, isAdminLoggedIn,
                      sessionId, matchInfo, inflight, clock, loads, configured,
                      remote>>
  ELSE /\ configured => CanIssue
       /\ teamSlots' = ClaimSlots(teamSlots, selectedTeam, selectedKey,
                                  Trim(typed), sessionId)
       /\ alertMsg' = ""
       /\ IF configured
          THEN /\ inflight' = Append(inflight,
                     Task("confirmBooking", "upsert", selectedTeam, selectedKey,
                          Trim(typed), sessionId, 0, NoPayload))
               /\ tempName' = typed
               /\ UNCHANGED selectedKey
          ELSE /\ selectedKey' = NoKey
               /\ tempName' = <<>>
               /\ UNCHANGED inflight
       /\ UNCHANGED <<bench, selectedTeam, isBenchModalOpen, benchTempName,
                      dbStatus, isAdminLoggedIn, sessionId, matchInfo, clock,
                      loads, configured, remote>>

(* a completion that undoes the local claim when the upsert fails *)
CompleteConfirmBooking_RollsBack(i, res) ==
  /\ i \in 1..Len(inflight)
  /\ inflight[i].kind = "confirmBooking"
  /\ rBookings' = IF res = "ok"
                  THEN UpsertBooking(rBookings, inflight[i].team, inflight[i].key,
                                     inflight[i].name, inflight[i].sid)
                  ELSE rBookings
  /\ teamSlots' = IF res = "ok" THEN teamSlots
                  ELSE [teamSlots EXCEPT ![inflight[i].team] =
                          [j \in 1..Len(@) |->
                             IF @[j].key = inflight[i].key
                             THEN EmptySlot(@[j]) ELSE @[j]]]
  /\ inflight' = RemoveAt(inflight, i)
  /\ selectedKey' = NoKey
  /\ tempName' = <<>>
  /\ alertMsg' = ""
  /\ UNCHANGED <<bench, selectedTeam, isBenchModalOpen, benchTempName,
                 dbStatus, isAdminLoggedIn, sessionId, matchInfo, clock, loads,
                 configured, rBench, rNextId, rMatch, authStored>>

(* saveBookingToSupabase returns: the upsert is applied unless it failed,  *)
(* and handleConfirmBooking closes the dialog either way                   *)
CompleteConfirmBooking(i, res) ==
  /\ i \in 1..Len(inflight)
  /\ inflight[i].kind = "confirmBooking"
  /\ rBookings' = IF res = "ok"
                  THEN UpsertBooking(rBookings, inflight[i].team, inflight[i].key,
                                     inflight[i].name, inflight[i].sid)
                  ELSE rBookings
  /\ inflight' = RemoveAt(inflight, i)
  /\ selectedKey' = NoKey
  /\ tempName' = <<>>
  /\ alertMsg' = ""
  /\ UNCHANGED <<teamSlots, bench, selectedTeam, isBenchModalOpen, benchTempName,
                 dbStatus, isAdminLoggedIn, sessionId, matchInfo, clock, loads,
                 configured, rBench, rNextId, rMatch, authStored>>

(* ---------------------------------------------------------------- cancel *)
(* a clear that forgets the rating *)
ClearSlot_KeepsRating(s) ==
  [s EXCEPT !.booked = FALSE, !.playerName = Undefined,
            !.tags = <<>>, !.note = "", !.paymentStatus = "unpaid",
            !.sessionId = ""]

ClearSlot(s) ==
  [s EXCEPT !.booked = FALSE, !.playerName = Undefined, !.rating = NoRating,
            !.tags = <<>>, !.note = "", !.paymentStatus = "unpaid",
            !.sessionId = ""]

PromoteInto(s, first) ==
  [s EXCEPT !.booked = TRUE, !.playerName = first.playerName,
            !.sessionId = Coalesce(first.sessionId, "")]

(* a promotion written over the position as the previous occupant left it *)
CancelSlots_PromotesInPlace(slots, team, key, q) ==
  IF q # <<>>
  THEN [slots EXCEPT ![team] =
          [i \in 1..Len(@) |->
            IF @[i].key = key THEN PromoteInto(@[i], Head(q)) ELSE @[i]]]
  ELSE [slots EXCEPT ![team] = [i \in 1..Len(@) |->
          IF @[i].key = key THEN ClearSlot(@[i]) ELSE @[i]]]

(* the two maps of the setTeamSlots updater of handleCancelBooking *)
CancelSlots(slots, team, key, q) ==
  LET cleared == [slots EXCEPT ![team] = [i \in 1..Len(@) |->
                IF @[i].key = key THEN ClearSlot(@[i]) ELSE @[i]]]
  IN  IF q # <<>>
      THEN [cleared EXCEPT ![team] =
              [i \in 1..Len(@) |->
                IF @[i].key = key THEN PromoteInto(@[i], Head(q)) ELSE @[i]]]
      ELSE cleared

(* a cancel that leaves the queue as it is *)
CancelBench_KeepsHead(q) == q

(* setBench(prev => prev.filter(b => b.id !== benchFirst.id)) *)
CancelBench(q) == IF q # <<>> THEN FilterOutId(q, Head(q).id) ELSE q

(* an ownership test that binds the privileged caller too *)
CancelRejected_IgnoresForce(slot, force) ==
  /\ Truthy(slot.sessionId)
  /\ Truthy(sessionId)
  /\ slot.sessionId # sessionId

(* the ownership test of handleCancelBooking *)
CancelRejected(slot, force) ==
  /\ ~force
  /\ Truthy(slot.sessionId)
  /\ Truthy(sessionId)
  /\ slot.sessionId # sessionId

handleCancelBooking(team, key, force) ==
  LET slot == FindSlot(teamSlots[team], key) IN
  IF CancelRejected(slot, force)
  THEN /\ alertMsg' = "not_your_booking"
       /\ UNCHANGED <<teamSlots, bench, localUi, dbStatus, isAdminLoggedIn,
                      sessionId, matchInfo, inflight, clock, loads, configured,
                      remote>>
  ELSE /\ configured => CanIssue
       /\ teamSlots' = CancelSlots(teamSlots, team, key, bench)
       /\ bench' = CancelBench(bench)
       /\ alertMsg' = ""
       /\ inflight' =
            IF ~configured THEN inflight
            ELSE IF bench # <<>>
            THEN Append(inflight,
                   Task("cancel", "upsert", team, key, Head(bench).playerName,
                        Head(bench).sessionId, Head(bench).id, NoPayload))
            ELSE Append(inflight,
                   Task("cancel", "delete", team, key, Undefined, "", 0, NoPayload))
       /\ UNCHANGED <<localUi, dbStatus, isAdminLoggedIn, sessionId, matchInfo,
                      clock, loads, configured, remote>>

CompleteCancel(i, res) ==
  /\ i \in 1..Len(inflight)
  /\ inflight[i].kind = "cancel"
  /\ LET t == inflight[i] IN
     CASE t.pc = "upsert" ->
            /\ rBookings' = IF res = "ok"
                            THEN UpsertBooking(rBookings, t.team, t.key, t.name, t.sid)
                            ELSE rBookings
            /\ inflight' = IF res = "throw" THEN RemoveAt(inflight, i)
                           ELSE ReplaceAt(inflight, i, [t EXCEPT !.pc = "benchDelete"])
            /\ UNCHANGED rBench
       [] t.pc = "benchDelete" ->
            /\ rBench' = IF res = "ok" THEN FilterOutId(rBench, t.id) ELSE rBench
            /\ inflight' = RemoveAt(inflight, i)
            /\ UNCHANGED rBookings
       [] OTHER ->
            /\ rBookings' = IF res = "ok"
                            THEN DeleteBooking(rBookings, t.team, t.key)
                            ELSE rBookings
            /\ inflight' = RemoveAt(inflight, i)
            /\ UNCHANGED rBench
  /\ alertMsg' = ""
  /\ UNCHANGED <<teamSlots, bench, localUi, dbStatus, isAdminLoggedIn, sessionId,
                 matchInfo, clock, loads, configured, rNextId, rMatch, authStored>>

(* ----------------------------------------------------------------- bench *)
handleOpenBenchBooking ==
  /\ IF deviceBooking.found
     THEN /\ alertMsg' = "holds_position"
          /\ UNCHANGED <<benchTempName, isBenchModalOpen>>
     ELSE IF deviceBenchEntry
     THEN /\ alertMsg' = "already_on_bench"
          /\ UNCHANGED <<benchTempName, isBenchModalOpen>>
     ELSE /\ benchTempName' = <<>>
          /\ isBenchModalOpen' = TRUE
          /\ alertMsg' = ""
  /\ UNCHANGED <<teamSlots, bench, selectedTeam, selectedKey, tempName, dbStatus,
                 isAdminLoggedIn, sessionId, matchInfo, inflight, clock, loads,
                 configured, remote>>

(* the bench dialog's cancel button *)
CloseBenchDialog ==
  /\ isBenchModalOpen
  /\ isBenchModalOpen' = FALSE
  /\ benchTempName' = <<>>
  /\ alertMsg' = ""
  /\ UNCHANGED <<teamSlots, bench, selectedTeam, selectedKey, tempName, dbStatus,
                 isAdminLoggedIn, sessionId, matchInfo, inflight, clock, loads,
                 configured, remote>>

(* [...prev, newBenchPlayer] *)
(* a join that puts the new entry at the front *)
JoinBench_Prepend(q, id, name, sid) ==
  <<[id |-> id, playerName |-> name, sessionId |-> sid]>> \o q

JoinBench(q, id, name, sid) ==
  Append(q, [id |-> id, playerName |-> name, sessionId |-> sid])

(* The user types `typed` into the bench dialog's input (onChange:         *)
(* setBenchTempName(e.target.value)) and presses the confirm button.       *)
(* Date.now() returns the value of the previous call or a later one.       *)
handleConfirmBenchBooking(typed, now) ==
  IF ~isBenchModalOpen
  THEN /\ alertMsg' = ""
       /\ UNCHANGED <<teamSlots, bench, localUi, dbStatus, isAdminLoggedIn,
                      sessionId, matchInfo, inflight, clock, loads, configured,
                      remote>>
  ELSE IF Trim(typed) = <<>>
  THEN /\ benchTempName' = typed
       /\ alertMsg' = ""
       /\ UNCHANGED <<teamSlots, bench, selectedTeam, selectedKey, tempName,
                      isBenchModalOpen, dbStatus, isAdminLoggedIn,
                      sessionId, matchInfo, inflight, clock, loads, configured,
                      remote>>
  ELSE /\ now \in clock..MaxClock
       /\ Len(bench) < MaxBench
       /\ configured => CanIssue
       /\ clock' = now
       /\ bench' = JoinBench(bench, TempBase + now, Trim(typed), sessionId)
       /\ alertMsg' = ""
       /\ IF configured
          THEN /\ inflight' = Append(inflight,
                     Task("benchJoin", "insert", NoTeam, NoKey, Trim(typed),
                          sessionId, TempBase + now, NoPayload))
               /\ benchTempName' = typed
               /\ UNCHANGED isBenchModalOpen
          ELSE /\ benchTempName' = <<>>
               /\ isBenchModalOpen' = FALSE
               /\ UNCHANGED inflight
       /\ UNCHANGED <<teamSlots, selectedTeam, selectedKey, tempName, dbStatus,
                      isAdminLoggedIn, sessionId, matchInfo, loads, configured,
                      remote>>

(* prev.map(b => b.id === tempId ? {id: row.id, ...} : b) *)
ReconcileBench(q, tempId, row) ==
  [j \in 1..Len(q) |->
     IF q[j].id = tempId
     THEN [id |-> row.id, playerName |-> row.player_name, sessionId |-> row.session_id]
     ELSE q[j]]

CompleteBenchJoin(i, res) ==
  /\ i \in 1..Len(inflight)
  /\ inflight[i].kind = "benchJoin"
  /\ res = "ok" => rNextId <= MaxBenchId
  /\ LET t == inflight[i]
         row == [id |-> rNextId, player_name |-> t.name, session_id |-> t.sid]
     IN  IF res = "ok"
         THEN /\ rBench' = Append(rBench, row)
              /\ rNextId' = rNextId + 1
              /\ bench' = ReconcileBench(bench, t.id, row)
         ELSE UNCHANGED <<rBench, rNextId, bench>>
  /\ inflight' = RemoveAt(inflight, i)
  /\ benchTempName' = <<>>
  /\ isBenchModalOpen' = FALSE
  /\ alertMsg' = ""
  /\ UNCHANGED <<teamSlots, selectedTeam, selectedKey, tempName, dbStatus,
                 isAdminLoggedIn, sessionId, matchInfo, clock, loads, configured,
                 rBookings, rMatch, authStored>>

BenchIds == {TempBase + t : t \in 0..MaxClock} \cup (1..MaxBenchId)

(* an ownership test that binds the privileged caller too *)
BenchCancelRejected_IgnoresForce(player, force) ==
  /\ Truthy(player.sessionId)
  /\ Truthy(sessionId)
  /\ player.sessionId # sessionId

(* the ownership test of handleCancelBenchPlayer *)
BenchCancelRejected(player, force) ==
  /\ ~force
  /\ Truthy(player.sessionId)
  /\ Truthy(sessionId)
  /\ player.sessionId # sessionId

handleCancelBenchPlayer(benchId, force) ==
  LET found == {j \in 1..Len(bench) : bench[j].id = benchId} IN
  IF found = {}
  THEN /\ alertMsg' = ""
       /\ UNCHANGED <<teamSlots, bench, localUi, dbStatus, isAdminLoggedIn,
                      sessionId, matchInfo, inflight, clock, loads, configured,
                      remote>>
  ELSE IF BenchCancelRejected(bench[CHOOSE j \in found : \A k \in found : j <= k], force)
  THEN /\ alertMsg' = "not_your_bench_seat"
       /\ UNCHANGED <<teamSlots, bench, localUi, dbStatus, isAdminLoggedIn,
                      sessionId, matchInfo, inflight, clock, loads, configured,
                      remote>>
  ELSE /\ configured => CanIssue
       /\ bench' = FilterOutId(bench, benchId)
       /\ alertMsg' = ""
       /\ inflight' =
            IF configured
            THEN Append(inflight,
                   Task("benchLeave", "delete", NoTeam, NoKey, Undefined, "",
                        benchId, NoPayload))
            ELSE inflight
       /\ UNCHANGED <<teamSlots, localUi, dbStatus, isAdminLoggedIn, sessionId,
                      matchInfo, clock, loads, configured, remote>>

CompleteBenchLeave(i, res) ==
  /\ i \in 1..Len(inflight)
  /\ inflight[i].kind = "benchLeave"
  /\ rBench' = IF res = "ok" THEN FilterOutId(rBench, inflight[i].id) ELSE rBench
  /\ inflight' = RemoveAt(inflight, i)
  /\ alertMsg' = ""
  /\ UNCHANGED <<teamSlots, bench, localUi, dbStatus, isAdminLoggedIn, sessionId,
                 matchInfo, clock, loads, configured, rBookings, rNextId, rMatch,
                 authStored>>

(* ----------------------------------------------------------------- reset *)
(* a reset of the selected team only *)
ResetSlots_SelectedTeamOnly(slots) ==
  [slots EXCEPT ![selectedTeam] = makeInitialTeamSlots[selectedTeam]]

(* setTeamSlots(makeInitialTeamSlots()) *)
ResetSlots(slots) == makeInitialTeamSlots

(* a reset that asks for the confirmation but not for the privilege *)
handleResetLineup_NoAdminCheck(sure) ==
  IF ~sure
  THEN /\ alertMsg' = ""
       /\ UNCHANGED <<teamSlots, bench, localUi, dbStatus, isAdminLoggedIn,
                      sessionId, matchInfo, inflight, clock, loads, configured,
                      remote>>
  ELSE /\ configured => CanIssue
       /\ teamSlots' = ResetSlots(teamSlots)
       /\ bench' = <<>>
       /\ IF configured
          THEN /\ inflight' = Append(inflight, SimpleTask("reset", "delBookings"))
               /\ alertMsg' = ""
          ELSE /\ alertMsg' = "reset_local_only"
               /\ UNCHANGED inflight
       /\ UNCHANGED <<localUi, dbStatus, isAdminLoggedIn, sessionId, matchInfo,
                      clock, loads, configured, remote>>

handleResetLineup(sure) ==
  IF ~isAdminLoggedIn
  THEN /\ alertMsg' = "admin_only"
       /\ UNCHANGED <<teamSlots, bench, localUi, dbStatus, isAdminLoggedIn,
                      sessionId, matchInfo, inflight, clock, loads, configured,
                      remote>>
  ELSE IF ~sure
  THEN /\ alertMsg' = ""
       /\ UNCHANGED <<teamSlots, bench, localUi, dbStatus, isAdminLoggedIn,
                      sessionId, matchInfo, inflight, clock, loads, configured,
                      remote>>
  ELSE /\ configured => CanIssue
       /\ teamSlots' = ResetSlots(teamSlots)
       /\ bench' = <<>>
       /\ IF configured
          THEN /\ inflight' = Append(inflight, SimpleTask("reset", "delBookings"))
               /\ alertMsg' = ""
          ELSE /\ alertMsg' = "reset_local_only"
               /\ UNCHANGED inflight
       /\ UNCHANGED <<localUi, dbStatus, isAdminLoggedIn, sessionId, matchInfo,
                      clock, loads, configured, remote>>

CompleteReset(i, res) ==
  /\ i \in 1..Len(inflight)
  /\ inflight[i].kind = "reset"
  /\ LET t == inflight[i] IN
     IF t.pc = "delBookings"
     THEN /\ rBookings' = IF res = "ok" THEN EmptyBookings ELSE rBookings
          /\ inflight' = IF res = "throw" THEN RemoveAt(inflight, i)
                         ELSE ReplaceAt(inflight, i, [t EXCEPT !.pc = "delBench"])
          /\ alertMsg' = IF res = "throw" THEN "reset_remote_failed" ELSE ""
          /\ UNCHANGED rBench
     ELSE /\ rBench' = IF res = "ok" THEN <<>> ELSE rBench
          /\ inflight' = RemoveAt(inflight, i)
          /\ alertMsg' = IF res = "throw" THEN "reset_remote_failed" ELSE "reset_done"
          /\ UNCHANGED rBookings
  /\ UNCHANGED <<teamSlots, bench, localUi, dbStatus, isAdminLoggedIn, sessionId,
                 matchInfo, clock, loads, configured, rNextId, rMatch, authStored>>

(* ------------------------------------------------------ position metadata *)
(* the four single-field calls of the admin view, and a call that changes *)
(* two fields at once                                                      *)
UpdateInputs ==
  { [rating |-> 7], [paymentStatus |-> "paid"], [tags |-> <<"fast">>],
    [note |-> "late"], [rating |-> 9, note |-> "x"] }

(* { ...slot, ...updates } *)
MergeSlot(s, updates) ==
  [f \in DOMAIN s |-> IF f \in DOMAIN updates THEN updates[f] ELSE s[f]]

(* a payload that carries every metadata column, null where not updated *)
ToPayload_AllColumns(updates) ==
  [f \in {"rating", "tags", "note", "payment_status"} |->
     IF f = "rating"
     THEN IF "rating" \in DOMAIN updates THEN updates["rating"] ELSE NoRating
     ELSE IF f = "tags"
     THEN IF "tags" \in DOMAIN updates THEN updates["tags"] ELSE NullTags
     ELSE IF f = "note"
     THEN IF "note" \in DOMAIN updates THEN updates["note"] ELSE NullV
     ELSE IF "paymentStatus" \in DOMAIN updates THEN updates["paymentStatus"] ELSE NullV]

(* the payload built field by field from the keys present in updates *)
ToPayload(updates) ==
  [f \in {IF g = "paymentStatus" THEN "payment_status" ELSE g : g \in DOMAIN updates}
     |-> IF f = "payment_status" THEN updates["paymentStatus"] ELSE updates[f]]

updateBookingDetails(team, key, updates) ==
  /\ configured => CanIssue
  /\ teamSlots' = [teamSlots EXCEPT ![team] =
                     [i \in 1..Len(@) |->
                IF @[i].key = key THEN MergeSlot(@[i], updates) ELSE @[i]]]
  /\ inflight' =
       IF configured
       THEN Append(inflight,
              Task("update", "update", team, key, Undefined, "", 0, ToPayload(updates)))
       ELSE inflight
  /\ alertMsg' = ""
  /\ UNCHANGED <<bench, localUi, dbStatus, isAdminLoggedIn, sessionId, matchInfo,
                 clock, loads, configured, remote>>

CompleteUpdate(i, res) ==
  /\ i \in 1..Len(inflight)
  /\ inflight[i].kind = "update"
  /\ rBookings' = IF res = "ok"
                  THEN UpdateBooking(rBookings, inflight[i].team, inflight[i].key,
                                     inflight[i].payload)
                  ELSE rBookings
  /\ inflight' = RemoveAt(inflight, i)
  /\ alertMsg' = ""
  /\ UNCHANGED <<teamSlots, bench, localUi, dbStatus, isAdminLoggedIn, sessionId,
                 matchInfo, clock, loads, configured, rBench, rNextId, rMatch,
                 authStored>>

(* --------------------------------------------------------- startup load *)
(* a hydration that forgets who owns the booking *)
RowToSlot_NoOwner(s, row) ==
  [s EXCEPT !.booked = TRUE,
            !.playerName = row.player_name,
            !.rating = row.rating,
            !.tags = IF row.tags = NullTags THEN <<>> ELSE row.tags,
            !.note = Coalesce(row.note, ""),
            !.paymentStatus = Coalesce(row.payment_status, "unpaid"),
            !.sessionId = ""]

(* one booking row turned into the slot it fills *)
RowToSlot(s, row) ==
  [s EXCEPT !.booked = TRUE,
            !.playerName = row.player_name,
            !.rating = row.rating,
            !.tags = IF row.tags = NullTags THEN <<>> ELSE row.tags,
            !.note = Coalesce(row.note, ""),
            !.paymentStatus = Coalesce(row.payment_status, "unpaid"),
            !.sessionId = Coalesce(row.session_id, "")]

(* makeInitialTeamSlots() with every row of bookingsData written over it *)
(* a hydration step that makes room for a team it does not know *)
ApplyRow_AddsTeam(next, team, key, row) ==
  [t \in DOMAIN next \cup {team} |->
     IF t \in DOMAIN next
     THEN [i \in 1..Len(next[t]) |->
             IF t = team /\ next[t][i].key = key
             THEN RowToSlot(next[t][i], row) ELSE next[t][i]]
     ELSE <<>>]

(* the body of bookingsData.forEach: if (next[team]) next[team] = map(...) *)
ApplyRow(next, team, key, row) ==
  IF team \in DOMAIN next
  THEN [next EXCEPT ![team] =
          [i \in 1..Len(@) |->
             IF @[i].key = key THEN RowToSlot(@[i], row) ELSE @[i]]]
  ELSE next

(* forEach over the rows ps of the table; (team, position_key) is unique,  *)
(* so the order of the rows does not matter                                *)
RECURSIVE ApplyRows(_, _, _)
ApplyRows(next, tbl, ps) ==
  IF ps = {} THEN next
  ELSE LET p == CHOOSE q \in ps : TRUE
       IN  ApplyRows(ApplyRow(next, p[1], p[2], tbl[p]), tbl, ps \ {p})

HydrateSlots(tbl) ==
  ApplyRows(makeInitialTeamSlots, tbl, {p \in DOMAIN tbl : tbl[p].present})

(* benchData mapped to BenchPlayer *)
HydrateBench(rows) ==
  [j \in 1..Len(rows) |->
     [id |-> rows[j].id, playerName |-> rows[j].player_name,
      sessionId |-> rows[j].session_id]]

(* row.x || default *)
HydrateMatch(row) ==
  [name |-> IF Truthy(row.match_name) THEN row.match_name ELSE "default",
   stadium |-> IF Truthy(row.stadium_name) THEN row.stadium_name ELSE "default",
   time |-> IF Truthy(row.match_time) THEN row.match_time ELSE "default"]

(* a load that gives up when the bench read fails *)
CompleteLoad_BenchFailureIsFatal(i, res) ==
  /\ i \in 1..Len(inflight)
  /\ inflight[i].kind = "load"
  /\ LET t == inflight[i] IN
     CASE t.pc = "bookings" ->
            /\ teamSlots' = IF res = "ok" THEN HydrateSlots(rBookings) ELSE teamSlots
            /\ dbStatus' = IF res = "ok" THEN dbStatus ELSE "error"
            /\ inflight' = IF res = "ok"
                           THEN ReplaceAt(inflight, i, [t EXCEPT !.pc = "match"])
                           ELSE RemoveAt(inflight, i)
            /\ UNCHANGED <<bench, matchInfo>>
       [] t.pc = "match" ->
            /\ matchInfo' = IF res = "ok" /\ rMatch.present
                            THEN HydrateMatch(rMatch) ELSE matchInfo
            /\ inflight' = ReplaceAt(inflight, i, [t EXCEPT !.pc = "bench"])
            /\ UNCHANGED <<teamSlots, bench, dbStatus>>
       [] OTHER ->
            /\ bench' = IF res = "ok" THEN HydrateBench(rBench) ELSE bench
            /\ dbStatus' = IF res = "ok" THEN "ready" ELSE "error"
            /\ inflight' = RemoveAt(inflight, i)
            /\ UNCHANGED <<teamSlots, matchInfo>>
  /\ alertMsg' = ""
  /\ UNCHANGED <<localUi, isAdminLoggedIn, sessionId, clock, loads, configured,
                 remote>>

CompleteLoad(i, res) ==
  /\ i \in 1..Len(inflight)
  /\ inflight[i].kind = "load"
  /\ LET t == inflight[i] IN
     CASE t.pc = "bookings" ->
            /\ teamSlots' = IF res = "ok" THEN HydrateSlots(rBookings) ELSE teamSlots
            /\ dbStatus' = IF res = "ok" THEN dbStatus ELSE "error"
            /\ inflight' = IF res = "ok"
                           THEN ReplaceAt(inflight, i, [t EXCEPT !.pc = "match"])
                           ELSE RemoveAt(inflight, i)
            /\ UNCHANGED <<bench, matchInfo>>
       [] t.pc = "match" ->
            /\ matchInfo' = IF res = "ok" /\ rMatch.present
                            THEN HydrateMatch(rMatch) ELSE matchInfo
            /\ inflight' = ReplaceAt(inflight, i, [t EXCEPT !.pc = "bench"])
            /\ UNCHANGED <<teamSlots, bench, dbStatus>>
       [] OTHER ->
            /\ bench' = IF res = "ok" THEN HydrateBench(rBench) ELSE bench
            /\ dbStatus' = "ready"
            /\ inflight' = RemoveAt(inflight, i)
            /\ UNCHANGED <<teamSlots, matchInfo>>
  /\ alertMsg' = ""
  /\ UNCHANGED <<localUi, isAdminLoggedIn, sessionId, clock, loads, configured,
                 remote>>

(* ------------------------------------------------------------------ auth *)
(* getSession(): a stored session makes the tab privileged *)
CompleteCheckSession(i, res) ==
  /\ i \in 1..Len(inflight)
  /\ inflight[i].kind = "checkSession"
  /\ isAdminLoggedIn' = IF res = "ok" /\ sessionId \in authStored
                        THEN TRUE ELSE isAdminLoggedIn
  /\ inflight' = RemoveAt(inflight, i)
  /\ alertMsg' = ""
  /\ UNCHANGED <<teamSlots, bench, localUi, dbStatus, sessionId, matchInfo, clock,
                 loads, configured, remote>>

(* valid: the typed email and password are the administrator's *)
handleAdminLogin(valid) ==
  /\ configured
  /\ CanIssue
  /\ inflight' = Append(inflight,
        Task("login", "signIn", NoTeam, NoKey, Undefined, "", 0, [valid |-> valid]))
  /\ alertMsg' = ""
  /\ UNCHANGED <<teamSlots, bench, localUi, dbStatus, isAdminLoggedIn, sessionId,
                 matchInfo, clock, loads, configured, remote>>

CompleteLogin(i, res) ==
  /\ i \in 1..Len(inflight)
  /\ inflight[i].kind = "login"
  /\ LET granted == res = "ok" /\ inflight[i].payload.valid IN
     /\ isAdminLoggedIn' = granted
     /\ authStored' = IF granted THEN authStored \cup {sessionId} ELSE authStored
  /\ inflight' = RemoveAt(inflight, i)
  /\ alertMsg' = ""
  /\ UNCHANGED <<teamSlots, bench, localUi, dbStatus, sessionId, matchInfo, clock,
                 loads, configured, rBookings, rBench, rNextId, rMatch>>

handleAdminLogout ==
  /\ configured => CanIssue
  /\ IF configured
     THEN /\ inflight' = Append(inflight, SimpleTask("logout", "signOut"))
          /\ UNCHANGED isAdminLoggedIn
     ELSE /\ isAdminLoggedIn' = FALSE
          /\ UNCHANGED inflight
  /\ alertMsg' = ""
  /\ UNCHANGED <<teamSlots, bench, localUi, dbStatus, sessionId, matchInfo, clock,
                 loads, configured, remote>>

(* a signOut that throws leaves the handler before setIsAdminLoggedIn(false) *)
CompleteLogout(i, res) ==
  /\ i \in 1..Len(inflight)
  /\ inflight[i].kind = "logout"
  /\ authStored' = IF res = "ok" THEN authStored \ {sessionId} ELSE authStored
  /\ isAdminLoggedIn' = IF res = "throw" THEN isAdminLoggedIn ELSE FALSE
  /\ inflight' = RemoveAt(inflight, i)
  /\ alertMsg' = ""
  /\ UNCHANGED <<teamSlots, bench, localUi, dbStatus, sessionId, matchInfo, clock,
                 loads, configured, rBookings, rBench, rNextId, rMatch>>

(* ---------------------------------------------------------------- reload *)
(* The page is opened again, on this device or on another one, once the    *)
(* requests of the previous page have settled: the React state starts      *)
(* over and the two mount effects run; the remote tables are kept.         *)
Reload(d) ==
  /\ loads < MaxLoads
  /\ inflight = <<>>
  /\ loads' = loads + 1
  /\ sessionId' = d
  /\ teamSlots' = makeInitialTeamSlots
  /\ bench' = <<>>
  /\ selectedTeam' = "red"
  /\ selectedKey' = NoKey
  /\ tempName' = <<>>
  /\ isBenchModalOpen' = FALSE
  /\ benchTempName' = <<>>
  /\ dbStatus' = IF configured THEN "loading" ELSE "disabled"
  /\ isAdminLoggedIn' = FALSE
  /\ matchInfo' = DefaultMatch
  /\ alertMsg' = ""
  /\ inflight' = StartupTasks(configured)
  /\ UNCHANGED <<clock, configured, remote>>

(* ---------------------------------------------------------- other device *)
(* The page of another device claims a position: its saveBookingToSupabase *)
(* upsert reaches the bookings table. Nothing notifies this page: its      *)
(* React state is untouched.                                               *)
OtherDeviceUpsert(team, key, name, sid) ==
  /\ configured
  /\ sid # sessionId
  /\ rBookings' = UpsertBooking(rBookings, team, key, name, sid)
  /\ alertMsg' = ""
  /\ UNCHANGED <<teamSlots, bench, localUi, dbStatus, isAdminLoggedIn, sessionId,
                 matchInfo, inflight, clock, loads, configured, rBench, rNextId,
                 rMatch, authStored>>

(* match_settings rows the administrator of another device may have saved *)
MatchRows ==
  { [present |-> TRUE, match_name |-> "cup", stadium_name |-> "", match_time |-> NullV] }

(* The administrator saves the match details on another device: the upsert *)
(* of handleSaveMatchSettings reaches match_settings. This page is not     *)
(* notified.                                                               *)
OtherDeviceSaveMatch(row) ==
  /\ configured
  /\ rMatch # row
  /\ rMatch' = row
  /\ alertMsg' = ""
  /\ UNCHANGED <<teamSlots, bench, localUi, dbStatus, isAdminLoggedIn, sessionId,
                 matchInfo, inflight, clock, loads, configured, rBookings, rBench,
                 rNextId, authStored>>

(* ------------------------------------------------------------------ Next *)
(* a click, a key press or a page load of the user *)
User(A) == ops < MaxOps /\ ops' = ops + 1 /\ A

(* the completion of a pending await *)
Settle(A) == A /\ UNCHANGED ops

Pending == 1..(MaxInflight + 2)

Next ==
  \/ User(CloseBookingDialog)
  \/ User(\E key \in ActiveKeys : handleOpenBooking(key))
  \/ User(\E team \in Teams : handleSwitchTeam(team))
  \/ User(\E team \in Teams : ShareSelectTeam(team))
  \/ User(\E typed \in RawNames : handleConfirmBooking(typed))
  \/ Settle(\E i \in Pending, res \in Results : CompleteConfirmBooking(i, res))
  \/ User(\E team \in Teams, key \in ActiveKeys, force \in BOOLEAN :
            handleCancelBooking(team, key, force))
  \/ Settle(\E i \in Pending, res \in Results : CompleteCancel(i, res))
  \/ User(handleOpenBenchBooking)
  \/ User(CloseBenchDialog)
  \/ User(\E typed \in RawNames, now \in 0..MaxClock :
            handleConfirmBenchBooking(typed, now))
  \/ Settle(\E i \in Pending, res \in Results : CompleteBenchJoin(i, res))
  \/ User(\E id \in BenchIds, force \in BOOLEAN : handleCancelBenchPlayer(id, force))
  \/ Settle(\E i \in Pending, res \in Results : CompleteBenchLeave(i, res))
  \/ User(\E sure \in BOOLEAN : handleResetLineup(sure))
  \/ Settle(\E i \in Pending, res \in Results : CompleteReset(i, res))
  \/ User(\E team \in Teams, key \in ActiveKeys, u \in UpdateInputs :
            updateBookingDetails(team, key, u))
  \/ Settle(\E i \in Pending, res \in Results : CompleteUpdate(i, res))
  \/ Settle(\E i \in Pending, res \in Results : CompleteLoad(i, res))
  \/ Settle(\E i \in Pending, res \in Results : CompleteCheckSession(i, res))
  \/ User(\E valid \in BOOLEAN : handleAdminLogin(valid))
  \/ Settle(\E i \in Pending, res \in Results : CompleteLogin(i, res))
  \/ User(handleAdminLogout)
  \/ Settle(\E i \in Pending, res \in Results : CompleteLogout(i, res))
  \/ User(\E d \in Devices : Reload(d))

Spec == Init /\ [][Next]_vars

(***************************************************************************)
(* Spec is the whole page.  The specifications below keep its initial      *)
(* states and a part of its operations each, so that every behaviour of    *)
(* one of them is a behaviour of Spec; an await whose completion a         *)
(* specification leaves out stays pending in it.                           *)
(***************************************************************************)

(* claiming a position and joining the bench *)
NextClaim ==
  \/ User(CloseBookingDialog)
  \/ User(\E key \in ActiveKeys : handleOpenBooking(key))
  \/ User(\E team \in Teams : handleSwitchTeam(team))
  \/ User(\E team \in Teams : ShareSelectTeam(team))
  \/ User(\E typed \in RawNames : handleConfirmBooking(typed))
  \/ Settle(\E i \in Pending, res \in Results : CompleteConfirmBooking(i, res))
  \/ User(handleOpenBenchBooking)
  \/ User(CloseBenchDialog)
  \/ User(\E typed \in RawNames, now \in 0..MaxClock :
            handleConfirmBenchBooking(typed, now))
  \/ Settle(\E i \in Pending, res \in Results : CompleteBenchJoin(i, res))
  \/ Settle(\E i \in Pending, res \in Results : CompleteLoad(i, res))

SpecClaim == Init /\ [][NextClaim]_vars

(* cancelling a position, with and without a substitute to promote *)
NextCancel ==
  \/ User(\E team \in Teams, key \in ActiveKeys, force \in BOOLEAN :
            handleCancelBooking(team, key, force))
  \/ Settle(\E i \in Pending, res \in Results : CompleteCancel(i, res))
  \/ User(handleOpenBenchBooking)
  \/ User(\E typed \in RawNames, now \in 0..MaxClock :
            handleConfirmBenchBooking(typed, now))
  \/ Settle(\E i \in Pending, res \in Results : CompleteBenchJoin(i, res))
  \/ User(\E id \in BenchIds, force \in BOOLEAN : handleCancelBenchPlayer(id, force))
  \/ Settle(\E i \in Pending, res \in Results : CompleteBenchLeave(i, res))
  \/ Settle(\E i \in Pending, res \in Results : CompleteLoad(i, res))

SpecCancel == Init /\ [][NextCancel]_vars

(* the administrator: sign-in, sign-out and reset *)
NextAdmin ==
  \/ User(\E valid \in BOOLEAN : handleAdminLogin(valid))
  \/ Settle(\E i \in Pending, res \in Results : CompleteLogin(i, res))
  \/ User(handleAdminLogout)
  \/ Settle(\E i \in Pending, res \in Results : CompleteLogout(i, res))
  \/ User(\E sure \in BOOLEAN : handleResetLineup(sure))
  \/ Settle(\E i \in Pending, res \in Results : CompleteReset(i, res))
  \/ User(handleOpenBenchBooking)
  \/ User(\E typed \in RawNames, now \in 0..MaxClock :
            handleConfirmBenchBooking(typed, now))
  \/ Settle(\E i \in Pending, res \in Results : CompleteBenchJoin(i, res))
  \/ Settle(\E i \in Pending, res \in Results : CompleteLoad(i, res))
  \/ Settle(\E i \in Pending, res \in Results : CompleteCheckSession(i, res))
  \/ User(\E d \in Devices : Reload(d))

SpecAdmin == Init /\ [][NextAdmin]_vars

(* the administrator's metadata edits of one position: red/ST, which is   *)
(* empty, or booked next to other booked positions, as the load finds it   *)
NextUpdate ==
  \/ User(\E u \in UpdateInputs : updateBookingDetails("red", "ST", u))
  \/ Settle(\E i \in Pending, res \in Results : CompleteUpdate(i, res))
  \/ Settle(\E i \in Pending, res \in Results : CompleteLoad(i, res))

SpecUpdate == Init /\ [][NextUpdate]_vars

(* every operation that issues a remote request, on one position and the   *)
(* bench, each followed by the settling of its requests                    *)
NextRemote ==
  \/ User(handleOpenBooking("GK"))
  \/ User(handleConfirmBooking(<<"A", " ">>))
  \/ Settle(\E i \in Pending, res \in Results : CompleteConfirmBooking(i, res))
  \/ User(handleCancelBooking("red", "GK", FALSE))
  \/ Settle(\E i \in Pending, res \in Results : CompleteCancel(i, res))
  \/ User(handleOpenBenchBooking)
  \/ User(handleConfirmBenchBooking(<<" ", "B">>, 0))
  \/ Settle(\E i \in Pending, res \in Results : CompleteBenchJoin(i, res))
  \/ User(\E id \in BenchIds : handleCancelBenchPlayer(id, FALSE))
  \/ Settle(\E i \in Pending, res \in Results : CompleteBenchLeave(i, res))
  \/ User(updateBookingDetails("red", "GK", [rating |-> 7]))
  \/ Settle(\E i \in Pending, res \in Results : CompleteUpdate(i, res))
  \/ User(handleAdminLogin(TRUE))
  \/ Settle(\E i \in Pending, res \in Results : CompleteLogin(i, res))
  \/ User(handleResetLineup(TRUE))
  \/ Settle(\E i \in Pending, res \in Results : CompleteReset(i, res))
  \/ Settle(\E i \in Pending, res \in Results : CompleteLoad(i, res))
  \/ Settle(\E i \in Pending, res \in Results : CompleteCheckSession(i, res))

SpecRemote == Init /\ [][NextRemote]_vars

(* this device and device Y claim red/GK at the same time, and this device *)
(* opens the page again afterwards                                         *)
NextRace ==
  \/ User(handleOpenBooking("GK"))
  \/ User(\E typed \in RawNames : handleConfirmBooking(typed))
  \/ Settle(\E i \in Pending, res \in Results : CompleteConfirmBooking(i, res))
  \/ User(OtherDeviceUpsert("red", "GK", <<"E">>, "Y"))
  \/ Settle(\E i \in Pending, res \in Results : CompleteLoad(i, res))
  \/ Settle(\E i \in Pending, res \in Results : CompleteCheckSession(i, res))
  \/ User(Reload("X"))

SpecRace == Init /\ [][NextRace]_vars

(* the page load and its failures, with a claim and a bench join of the    *)
(* user, match details saved elsewhere, and the page opened again          *)
NextLoad ==
  \/ Settle(\E i \in Pending, res \in Results : CompleteLoad(i, res))
  \/ Settle(\E i \in Pending, res \in Results : CompleteCheckSession(i, res))
  \/ User(\E row \in MatchRows : OtherDeviceSaveMatch(row))
  \/ User(handleOpenBooking("ST"))
  \/ User(handleConfirmBooking(<<"A", " ">>))
  \/ Settle(\E i \in Pending, res \in Results : CompleteConfirmBooking(i, res))
  \/ User(handleOpenBenchBooking)
  \/ User(handleConfirmBenchBooking(<<" ", "B">>, 0))
  \/ Settle(\E i \in Pending, res \in Results : CompleteBenchJoin(i, res))
  \/ User(\E d \in Devices : Reload(d))

SpecLoad == Init /\ [][NextLoad]_vars

(* claims, cancels and metadata updates in both teams, over tables that    *)
(* may hold rows of a team or a key the page does not know                 *)
InitPositions == InitFrom(TRUE, Seeds \cup StraySeeds)

NextPositions ==
  \/ Settle(\E i \in Pending, res \in Results : CompleteLoad(i, res))
  \/ User(handleOpenBooking("GK"))
  \/ User(\E team \in Teams : handleSwitchTeam(team))
  \/ User(handleConfirmBooking(<<"A", " ">>))
  \/ Settle(\E i \in Pending, res \in Results : CompleteConfirmBooking(i, res))
  \/ User(\E team \in Teams, key \in {"GK", "LB"} :
            handleCancelBooking(team, key, TRUE))
  \/ Settle(\E i \in Pending, res \in Results : CompleteCancel(i, res))
  \/ User(\E team \in Teams : updateBookingDetails(team, "GK", [rating |-> 7]))
  \/ Settle(\E i \in Pending, res \in Results : CompleteUpdate(i, res))

SpecPositions == InitPositions /\ [][NextPositions]_vars

(* the page without a configured gateway: every handler, no request *)
InitUnconfigured == InitLocal(FALSE)

UserLocal(A) == ops < MaxLocalOps /\ ops' = ops + 1 /\ A

NextLocal ==
  \/ UserLocal(handleOpenBooking("GK"))
  \/ UserLocal(handleConfirmBooking(<<"A", " ">>))
  \/ UserLocal(\E force \in BOOLEAN : handleCancelBooking("red", "GK", force))
  \/ UserLocal(handleOpenBenchBooking)
  \/ UserLocal(\E now \in 0..MaxClock : handleConfirmBenchBooking(<<" ", "B">>, now))
  \/ UserLocal(\E id \in BenchIds, force \in BOOLEAN :
                 handleCancelBenchPlayer(id, force))
  \/ UserLocal(\E u \in UpdateInputs : updateBookingDetails("red", "GK", u))
  \/ UserLocal(\E sure \in BOOLEAN : handleResetLineup(sure))
  \/ UserLocal(handleAdminLogout)

SpecLocal == InitUnconfigured /\ [][NextLocal]_vars

(* one device, every remote call succeeding: bench join, leave, cancel,    *)
(* the page load, and the page opened again                                *)
NextAllOk ==
  \/ User(handleOpenBenchBooking)
  \/ User(\E now \in 0..MaxClock : handleConfirmBenchBooking(<<" ", "B">>, now))
  \/ Settle(\E i \in Pending : CompleteBenchJoin(i, "ok"))
  \/ User(\E id \in BenchIds : handleCancelBenchPlayer(id, FALSE))
  \/ Settle(\E i \in Pending : CompleteBenchLeave(i, "ok"))
  \/ User(\E team \in Teams, key \in ActiveKeys :
            handleCancelBooking(team, key, FALSE))
  \/ Settle(\E i \in Pending : CompleteCancel(i, "ok"))
  \/ Settle(\E i \in Pending : CompleteLoad(i, "ok"))
  \/ Settle(\E i \in Pending : CompleteCheckSession(i, "ok"))
  \/ User(Reload("X"))

SpecAllOk == Init /\ [][NextAllOk]_vars

(* one visit of one device, every remote call succeeding: the startup     *)
(* load, bench join, leave, and cancel with its promotion                  *)
NextBenchSync ==
  \/ User(handleOpenBenchBooking)
  \/ User(\E now \in 0..MaxClock : handleConfirmBenchBooking(<<" ", "B">>, now))
  \/ Settle(\E i \in Pending : CompleteBenchJoin(i, "ok"))
  \/ User(\E id \in BenchIds : handleCancelBenchPlayer(id, FALSE))
  \/ Settle(\E i \in Pending : CompleteBenchLeave(i, "ok"))
  \/ User(\E force \in BOOLEAN : handleCancelBooking("red", "ST", force))
  \/ Settle(\E i \in Pending : CompleteCancel(i, "ok"))
  \/ Settle(\E i \in Pending : CompleteLoad(i, "ok"))
  \/ Settle(\E i \in Pending : CompleteCheckSession(i, "ok"))

(* every request that is pending resolves: an await of a call that         *)
(* succeeds returns, and the handler runs on to its next await or its end  *)
FairBenchSync ==
  /\ WF_vars(Settle(\E i \in Pending : CompleteBenchJoin(i, "ok")))
  /\ WF_vars(Settle(\E i \in Pending : CompleteBenchLeave(i, "ok")))
  /\ WF_vars(Settle(\E i \in Pending : CompleteCancel(i, "ok")))
  /\ WF_vars(Settle(\E i \in Pending : CompleteLoad(i, "ok")))
  /\ WF_vars(Settle(\E i \in Pending : CompleteCheckSession(i, "ok")))

SpecBenchSync == Init /\ [][NextBenchSync]_vars /\ FairBenchSync

(***************************************************************************)
(*                               Properties                                *)
(***************************************************************************)
AllDevices == Devices \cup {"Z"}
Positions == Teams \X (1..Len(baseSlots))

(* the positions a device owns in local state *)
OwnedBy(d) ==
  {p \in Positions : teamSlots[p[1]][p[2]].booked /\ teamSlots[p[1]][p[2]].sessionId = d}

(* the bench entries a device owns in local state *)
BenchOwnedBy(d) == {j \in 1..Len(bench) : bench[j].sessionId = d}

SlotAt(slots, team, key) == FindSlot(slots[team], key)

(* every position but (team, key) is the same in both *)
OthersSame(a, b, team, key) ==
  \A p \in Positions :
    a[p[1]][p[2]].key = b[p[1]][p[2]].key
    /\ (~(p[1] = team /\ a[p[1]][p[2]].key = key) => a[p[1]][p[2]] = b[p[1]][p[2]])

HasDefaults(s) ==
  /\ ~s.booked
  /\ s.playerName = Undefined
  /\ s.rating = NoRating
  /\ s.tags = <<>>
  /\ s.note = ""
  /\ s.paymentStatus = "unpaid"
  /\ s.sessionId = ""

(* C1: in every reachable local state a device identifier owns at most one *)
(* booked position across both teams.                                      *)
C1_OnePositionPerDevice ==
  \A d \in AllDevices : Cardinality(OwnedBy(d)) <= 1

(* C2: in every reachable local state no device identifier owns a booked   *)
(* position and a bench entry at the same time.                            *)
C2_PositionOrBench ==
  \A d \in AllDevices : OwnedBy(d) = {} \/ BenchOwnedBy(d) = {}

(* C9: in every reachable local state a device identifier owns at most one *)
(* bench entry.                                                            *)
C9_OneBenchEntryPerDevice ==
  \A d \in AllDevices : Cardinality(BenchOwnedBy(d)) <= 1

(* the cancel of (team, key) is one the ownership rule permits *)
CancelPermitted(team, key, force) ==
  LET slot == SlotAt(teamSlots, team, key) IN
  force \/ slot.sessionId = sessionId \/ ~Truthy(slot.sessionId)

(* C3: a permitted cancel of a position while the bench is not empty puts  *)
(* the head entry's name and device into the position, booked, and removes *)
(* that one entry from the queue: the queue after it is the tail of the    *)
(* queue before it.                                                        *)
C3_PromotesExactlyHead ==
  [][\A team \in Teams, key \in ActiveKeys, force \in BOOLEAN :
       (bench # <<>> /\ CancelPermitted(team, key, force)
        /\ handleCancelBooking(team, key, force))
       => /\ SlotAt(teamSlots', team, key).booked
          /\ SlotAt(teamSlots', team, key).playerName = Head(bench).playerName
          /\ SlotAt(teamSlots', team, key).sessionId = Coalesce(Head(bench).sessionId, "")
          /\ bench' = Tail(bench)]_vars

(* C4: a permitted cancel of a position while the bench is empty leaves    *)
(* the position unbooked with every field at its default, and the bench    *)
(* empty.                                                                  *)
C4_CancelResetsPosition ==
  [][\A team \in Teams, key \in ActiveKeys, force \in BOOLEAN :
       (bench = <<>> /\ CancelPermitted(team, key, force)
        /\ handleCancelBooking(team, key, force))
       => /\ HasDefaults(SlotAt(teamSlots', team, key))
          /\ bench' = <<>>]_vars

(* C4 witness: the position this device booked earlier, rated 7 and paid   *)
(* in the remote row, has been loaded and then cancelled with nobody on    *)
(* the bench.                                                              *)
C4_Witness ==
  /\ rBookings[<<"red", "ST">>].rating = 7
  /\ HasDefaults(SlotAt(teamSlots, "red", "ST"))
  /\ bench = <<>>
  /\ dbStatus = "ready"
  /\ \E i \in 1..Len(inflight) :
       inflight[i].kind = "cancel" /\ inflight[i].pc = "delete"
       /\ inflight[i].team = "red" /\ inflight[i].key = "ST"
(* C5: a reset by the privileged caller, once confirmed, leaves both teams *)
(* at their initial definition (nothing booked) and the bench empty, and   *)
(* no outcome of the remote deletes that follow changes that.              *)
C5_ResetClearsLocalState ==
  [][/\ (isAdminLoggedIn /\ handleResetLineup(TRUE))
         => /\ \A p \in Positions : HasDefaults(teamSlots'[p[1]][p[2]])
            /\ \A p \in Positions :
                 teamSlots'[p[1]][p[2]].key = baseSlots[p[2]].key
            /\ bench' = <<>>
     /\ \A i \in Pending, res \in Results :
          CompleteReset(i, res) => UNCHANGED <<teamSlots, bench>>]_vars

(* C5 witness: the lineup was loaded from a populated store, the reset ran *)
(* and its first remote delete is still pending.                           *)
C5_Witness ==
  /\ dbStatus = "ready"
  /\ \E k \in DOMAIN rBookings : rBookings[k].present
  /\ rBench # <<>>
  /\ \A p \in Positions : ~teamSlots[p[1]][p[2]].booked
  /\ bench = <<>>
  /\ \E i \in 1..Len(inflight) :
       inflight[i].kind = "reset" /\ inflight[i].pc = "delBookings"

(* the acting device holds a booked position or a bench entry *)
DeviceHolds == OwnedBy(sessionId) # {} \/ BenchOwnedBy(sessionId) # {}

(* the step showed a blocking message and changed nothing *)
Blocked ==
  /\ alertMsg' # ""
  /\ UNCHANGED <<teamSlots, bench, inflight, remote>>

(* C6: an attempt to claim a position by a device that already owns a      *)
(* booked position (another one) or a bench entry, whether at the opening  *)
(* of the booking dialog or at its confirmation with a name, is rejected   *)
(* with a blocking message, changes no position and no bench entry, and    *)
(* issues no remote write.                                                 *)
C6_HolderIsRejected ==
  [][/\ \A key \in ActiveKeys :
          (DeviceHolds
           /\ ~(SlotAt(teamSlots, selectedTeam, key).booked
                /\ SlotAt(teamSlots, selectedTeam, key).sessionId = sessionId)
           /\ handleOpenBooking(key))
          => Blocked
     /\ \A typed \in RawNames :
          (DeviceHolds
           /\ selectedKey # NoKey /\ Trim(typed) # <<>>
           /\ ~(SlotAt(teamSlots, selectedTeam, selectedKey).booked
                /\ SlotAt(teamSlots, selectedTeam, selectedKey).sessionId = sessionId)
           /\ handleConfirmBooking(typed))
          => Blocked]_vars

(* C7: a claim that goes through (dialog open on (team, key), a name that  *)
(* is not blank, no bench entry held) books exactly that position with the *)
(* trimmed name and the acting device as owner, changes no other position  *)
(* and not the bench, and issues one upsert for (team, key) carrying that  *)
(* name and device; when the upsert succeeds the remote row holds them.    *)
C7_ClaimBooksOnePosition ==
  [][/\ \A typed \in RawNames :
          (selectedKey # NoKey /\ Trim(typed) # <<>>
           /\ BenchOwnedBy(sessionId) = {} /\ handleConfirmBooking(typed))
          => /\ SlotAt(teamSlots', selectedTeam, selectedKey).booked
             /\ SlotAt(teamSlots', selectedTeam, selectedKey).playerName = Trim(typed)
             /\ SlotAt(teamSlots', selectedTeam, selectedKey).sessionId = sessionId
             /\ OthersSame(teamSlots, teamSlots', selectedTeam, selectedKey)
             /\ bench' = bench
             /\ Len(inflight') = Len(inflight) + 1
             /\ SubSeq(inflight', 1, Len(inflight)) = inflight
             /\ LET t == inflight'[Len(inflight')] IN
                  /\ t.kind = "confirmBooking" /\ t.pc = "upsert"
                  /\ t.team = selectedTeam /\ t.key = selectedKey
                  /\ t.name = Trim(typed) /\ t.sid = sessionId
     /\ \A i \in Pending :
          (i <= Len(inflight) /\ inflight[i].kind = "confirmBooking"
           /\ CompleteConfirmBooking(i, "ok"))
          => LET t == inflight[i] IN
               /\ rBookings'[<<t.team, t.key>>].present
               /\ rBookings'[<<t.team, t.key>>].player_name = t.name
               /\ rBookings'[<<t.team, t.key>>].session_id = t.sid
               /\ \A k \in DOMAIN rBookings :
                    k # <<t.team, t.key>> => rBookings'[k] = rBookings[k]]_vars

(* C7 witness: green/GK has just been claimed by device X under the name   *)
(* B, typed with a leading blank, and its upsert is in flight.             *)
C7_Witness ==
  /\ SlotAt(teamSlots, "green", "GK").booked
  /\ SlotAt(teamSlots, "green", "GK").playerName = <<"B">>
  /\ SlotAt(teamSlots, "green", "GK").sessionId = "X"
  /\ \E i \in 1..Len(inflight) :
       /\ inflight[i].kind = "confirmBooking" /\ inflight[i].team = "green"
       /\ inflight[i].key = "GK" /\ inflight[i].name = <<"B">>

(* C8: a cancel of a booked position goes through when the caller is       *)
(* privileged, or the acting device is the recorded owner, or the position *)
(* has no recorded owner; any other cancel shows a blocking message,       *)
(* changes no position and no bench entry and issues no remote request.    *)
C8_CancelOwnership ==
  [][\A team \in Teams, key \in ActiveKeys, force \in BOOLEAN :
       (SlotAt(teamSlots, team, key).booked /\ handleCancelBooking(team, key, force))
       => IF CancelPermitted(team, key, force)
          THEN /\ alertMsg' = ""
               /\ bench = <<>> => ~SlotAt(teamSlots', team, key).booked
               /\ bench # <<>> =>
                    SlotAt(teamSlots', team, key).playerName = Head(bench).playerName
               /\ Len(inflight') = Len(inflight) + 1
               /\ inflight'[Len(inflight')].kind = "cancel"
               /\ inflight'[Len(inflight')].team = team
               /\ inflight'[Len(inflight')].key = key
          ELSE /\ alertMsg' # ""
               /\ UNCHANGED <<teamSlots, bench, inflight, remote>>]_vars

(* C8 witness: device X has just been refused the cancel of red/GK, which  *)
(* device Y owns.                                                          *)
C8_Witness ==
  /\ alertMsg = "not_your_booking"
  /\ sessionId = "X"
  /\ SlotAt(teamSlots, "red", "GK").booked
  /\ SlotAt(teamSlots, "red", "GK").sessionId = "Y"

(* q is p with some entries left out, the others in p's order *)
RECURSIVE IsSubsequence(_, _)
IsSubsequence(q, p) ==
  IF q = <<>> THEN TRUE
  ELSE IF p = <<>> THEN FALSE
  ELSE IF Head(q) = Head(p) THEN IsSubsequence(Tail(q), Tail(p))
  ELSE IsSubsequence(q, Tail(p))

(* C10: the bench is first in, first out: a join puts the new entry after  *)
(* the entries already queued and leaves those as they were, in order; and *)
(* the entry a cancel promotes is the first of the queue, so no entry is   *)
(* promoted while one queued ahead of it remains, and the entries left     *)
(* keep their order.                                                       *)
C10_BenchFifo ==
  [][/\ \A typed \in RawNames, now \in 0..MaxClock :
          (isBenchModalOpen /\ Trim(typed) # <<>>
           /\ handleConfirmBenchBooking(typed, now))
          => /\ Len(bench') = Len(bench) + 1
             /\ SubSeq(bench', 1, Len(bench)) = bench
             /\ bench'[Len(bench')].playerName = Trim(typed)
             /\ bench'[Len(bench')].sessionId = sessionId
     /\ \A team \in Teams, key \in ActiveKeys, force \in BOOLEAN :
          (bench # <<>> /\ CancelPermitted(team, key, force)
           /\ handleCancelBooking(team, key, force))
          => /\ SlotAt(teamSlots', team, key).playerName = bench[1].playerName
             /\ SlotAt(teamSlots', team, key).sessionId = Coalesce(bench[1].sessionId, "")
             /\ IsSubsequence(bench', Tail(bench))]_vars

(* C10 witness: D of device Z, first in the queue, has been promoted into  *)
(* a position while the later entry of device X is still queued.           *)
C10_Witness ==
  /\ \E p \in Positions :
       /\ teamSlots[p[1]][p[2]].booked
       /\ teamSlots[p[1]][p[2]].sessionId = "Z"
       /\ teamSlots[p[1]][p[2]].playerName = <<"D">>
  /\ Len(bench) = 1
  /\ bench[1].sessionId = "X"

(* the pending requests that name a bench row by id: the bench delete of a  *)
(* cancel that promoted, and the delete of a leave                         *)
BenchKeyed(t) ==
  \/ t.kind = "cancel" /\ t.pc = "benchDelete"
  \/ t.kind = "benchLeave"

IsTemporary(id) == id >= TempBase

(* C11: when the insert of a bench join succeeds, the joined entry keeps   *)
(* its place in the queue and its device and carries the persisted id, no  *)
(* local entry carries the temporary id any more, and no remote request    *)
(* is ever keyed by a temporary id, whatever cancel, leave or reset did    *)
(* in between.                                                             *)
C11_TemporaryIdReconciled ==
  [][/\ \A i \in Pending :
          (i <= Len(inflight) /\ inflight[i].kind = "benchJoin"
           /\ CompleteBenchJoin(i, "ok"))
          => /\ Len(bench') = Len(bench)
             /\ \A j \in 1..Len(bench) :
                  IF bench[j].id = inflight[i].id
                  THEN /\ bench'[j].id = rNextId
                       /\ bench'[j].sessionId = bench[j].sessionId
                  ELSE bench'[j] = bench[j]
             /\ \A j \in 1..Len(bench') : bench'[j].id # inflight[i].id
     /\ \A i \in 1..Len(inflight') :
          BenchKeyed(inflight'[i]) => ~IsTemporary(inflight'[i].id)]_vars

(* the places of the queue whose entry has this id *)
BenchPlaces(id) == {j \in 1..Len(bench) : bench[j].id = id}

(* the leave of the entry with this id is one the ownership rule permits *)
LeavePermitted(id, force) ==
  LET first == bench[CHOOSE j \in BenchPlaces(id) : \A k \in BenchPlaces(id) : j <= k]
  IN  force \/ first.sessionId = sessionId \/ ~Truthy(first.sessionId)

(* C12: a leave of bench entry id i by the privileged caller, by the       *)
(* entry's recorded owner, or of an entry without recorded owner removes   *)
(* what the queue holds under id i and nothing else, keeps the order of    *)
(* the other entries, leaves every position unchanged and issues one       *)
(* bench delete for id i; a leave by anybody else, or of an id that is not *)
(* in the queue, changes nothing and issues nothing.                       *)
C12_LeaveRemovesEntry ==
  [][\A id \in BenchIds, force \in BOOLEAN :
       handleCancelBenchPlayer(id, force)
       => IF BenchPlaces(id) # {} /\ LeavePermitted(id, force)
          THEN /\ \A j \in 1..Len(bench') : bench'[j].id # id
               /\ IsSubsequence(bench', bench)
               /\ Len(bench') = Len(bench) - Cardinality(BenchPlaces(id))
               /\ teamSlots' = teamSlots
               /\ Len(inflight') = Len(inflight) + 1
               /\ SubSeq(inflight', 1, Len(inflight)) = inflight
               /\ inflight'[Len(inflight')].kind = "benchLeave"
               /\ inflight'[Len(inflight')].id = id
          ELSE UNCHANGED <<teamSlots, bench, inflight, remote>>]_vars

(* C12 witness: device X has left the bench it had joined behind D of      *)
(* device Z; D is still queued and the delete is in flight.                *)
C12_Witness ==
  /\ Len(bench) = 1
  /\ bench[1].sessionId = "Z"
  /\ sessionId = "X"
  /\ \E i \in 1..Len(inflight) :
       inflight[i].kind = "benchLeave" /\ inflight[i].id # bench[1].id

(* the bookings column a slot field is stored in *)
ColumnOf(f) == IF f = "paymentStatus" THEN "payment_status" ELSE f

(* C13: a metadata update of (team, key) gives the fields it lists their   *)
(* new values and leaves every other field of that position (booked flag,  *)
(* occupant and owner among them), every other position and the bench as   *)
(* they were; the request it issues is matched by (team, key) and its      *)
(* payload has exactly the columns of the listed fields, and a successful  *)
(* request changes exactly those columns of that row.                      *)
C13_UpdateTouchesListedFields ==
  [][/\ \A team \in Teams, key \in ActiveKeys, u \in UpdateInputs :
          updateBookingDetails(team, key, u)
          => /\ \A f \in DOMAIN SlotAt(teamSlots, team, key) :
                  SlotAt(teamSlots', team, key)[f] =
                    IF f \in DOMAIN u THEN u[f] ELSE SlotAt(teamSlots, team, key)[f]
             /\ OthersSame(teamSlots, teamSlots', team, key)
             /\ bench' = bench
             /\ Len(inflight') = Len(inflight) + 1
             /\ SubSeq(inflight', 1, Len(inflight)) = inflight
             /\ LET t == inflight'[Len(inflight')] IN
                  /\ t.kind = "update" /\ t.team = team /\ t.key = key
                  /\ DOMAIN t.payload = {ColumnOf(f) : f \in DOMAIN u}
                  /\ \A f \in DOMAIN u : t.payload[ColumnOf(f)] = u[f]
     /\ \A i \in Pending :
          (i <= Len(inflight) /\ inflight[i].kind = "update"
           /\ CompleteUpdate(i, "ok"))
          => LET t == inflight[i]
                 k == <<t.team, t.key>>
             IN  /\ \A c \in DOMAIN rBookings[k] :
                      rBookings'[k][c] =
                        IF rBookings[k].present /\ c \in DOMAIN t.payload
                        THEN t.payload[c] ELSE rBookings[k][c]
                 /\ \A o \in DOMAIN rBookings : o # k => rBookings'[o] = rBookings[o]]_vars

(* C13 witness: red/ST, booked by A of device X, tagged and paid, has been *)
(* given rating 9 and note x in one update whose request is in flight.     *)
C13_Witness ==
  /\ SlotAt(teamSlots, "red", "ST").booked
  /\ SlotAt(teamSlots, "red", "ST").playerName = <<"A">>
  /\ SlotAt(teamSlots, "red", "ST").sessionId = "X"
  /\ SlotAt(teamSlots, "red", "ST").rating = 9
  /\ SlotAt(teamSlots, "red", "ST").note = "x"
  /\ SlotAt(teamSlots, "red", "ST").tags = <<"fast">>
  /\ SlotAt(teamSlots, "red", "ST").paymentStatus = "paid"
  /\ \E i \in 1..Len(inflight) :
       /\ inflight[i].kind = "update" /\ inflight[i].team = "red"
       /\ inflight[i].key = "ST" /\ DOMAIN inflight[i].payload = {"rating", "note"}

(* C14: a reset asked for by a caller who is not signed in as the          *)
(* privileged role, or who declines the confirmation, leaves the positions *)
(* and the bench unchanged and issues no remote bulk delete.               *)
C14_ResetNeedsPrivilegeAndConfirmation ==
  [][\A sure \in BOOLEAN :
       ((~isAdminLoggedIn \/ ~sure) /\ handleResetLineup(sure))
       => UNCHANGED <<teamSlots, bench, inflight, remote>>]_vars

(* C14 witness: a caller who is not signed in has just been refused the    *)
(* reset of a loaded lineup with booked positions and a queued substitute. *)
C14_Witness ==
  /\ alertMsg = "admin_only"
  /\ ~isAdminLoggedIn
  /\ dbStatus = "ready"
  /\ \E p \in Positions : teamSlots[p[1]][p[2]].booked
  /\ bench # <<>>

(* C15: when the bulk delete that ends the reset fails, by an error result *)
(* or by an exception, the local state stays reset, the failure is         *)
(* reported and the success message is not shown.                          *)
C15_ResetFailureReported ==
  [][\A i \in Pending, res \in Results \ {"ok"} :
       (i <= Len(inflight) /\ inflight[i].kind = "reset"
        /\ inflight[i].pc = "delBench" /\ CompleteReset(i, res))
       => /\ UNCHANGED <<teamSlots, bench>>
          /\ alertMsg' = "reset_remote_failed"]_vars

(* C16: a claim takes a position from empty to booked only: confirming the *)
(* booking dialog never replaces the occupant or the owner of a position   *)
(* that local state shows as booked by another device.                     *)
C16_ClaimOnlyFillsEmpty ==
  [][\A typed \in RawNames :
       (selectedKey # NoKey /\ Trim(typed) # <<>>
        /\ SlotAt(teamSlots, selectedTeam, selectedKey).booked
        /\ SlotAt(teamSlots, selectedTeam, selectedKey).sessionId # sessionId
        /\ handleConfirmBooking(typed))
       => /\ SlotAt(teamSlots', selectedTeam, selectedKey).playerName =
               SlotAt(teamSlots, selectedTeam, selectedKey).playerName
          /\ SlotAt(teamSlots', selectedTeam, selectedKey).sessionId =
               SlotAt(teamSlots, selectedTeam, selectedKey).sessionId]_vars


(* the remote requests of the six operations, one kind of task each *)
RemoteKinds ==
  {"confirmBooking", "cancel", "benchJoin", "benchLeave", "update", "reset"}

(* the bench q with its identifiers left out *)
BenchPlayers(q) ==
  [j \in 1..Len(q) |-> [playerName |-> q[j].playerName, sessionId |-> q[j].sessionId]]

(* the settling of request i of one of the six operations with result res *)
CompleteRemote(i, res) ==
  \/ CompleteConfirmBooking(i, res)
  \/ CompleteCancel(i, res)
  \/ CompleteBenchJoin(i, res)
  \/ CompleteBenchLeave(i, res)
  \/ CompleteUpdate(i, res)
  \/ CompleteReset(i, res)

(* C17: a remote failure leaves local state as the handler set it: the     *)
(* settling of a request of claim, cancel, bench leave, update or reset    *)
(* changes neither positions nor bench whatever the result, and the        *)
(* settling of a bench insert changes the bench only on success, and then  *)
(* only the temporary id of the joined entry: the failed insert keeps it.  *)
C17_RemoteFailureKeepsLocalState ==
  [][\A i \in Pending, res \in Results :
       (i <= Len(inflight) /\ inflight[i].kind \in RemoteKinds
        /\ CompleteRemote(i, res))
       => /\ teamSlots' = teamSlots
          /\ BenchPlayers(bench') = BenchPlayers(bench)
          /\ (inflight[i].kind # "benchJoin" \/ res # "ok") => bench' = bench
          /\ \A j \in 1..Len(bench) :
               bench'[j].id # bench[j].id
               => bench[j].id = inflight[i].id /\ ~IsTemporary(bench'[j].id)]_vars

(* a claim whose upsert failed is still shown, and a bench entry whose     *)
(* insert failed still carries its temporary id                            *)
C17_Witness ==
  /\ HandlerTasks = {}
  /\ \/ /\ SlotAt(teamSlots, "red", "GK").booked
        /\ SlotAt(teamSlots, "red", "GK").sessionId = sessionId
        /\ ~rBookings[<<"red", "GK">>].present
     \/ \E j \in 1..Len(bench) :
          /\ IsTemporary(bench[j].id)
          /\ bench[j].sessionId = sessionId
          /\ \A k \in 1..Len(rBench) : rBench[k].session_id # sessionId


(* the remote row of position (team, key) names this claimant *)
RowNames(tbl, team, key, name, sid) ==
  /\ tbl[<<team, key>>].present
  /\ tbl[<<team, key>>].player_name = name
  /\ tbl[<<team, key>>].session_id = sid

(* the remote rows of every position but (team, key) are the same in a, b *)
OtherRowsSame(a, b, team, key) ==
  \A p \in Teams \X Keys : p # <<team, key>> => a[p] = b[p]

(* local state shows the remote row of (team, key), or its absence *)
ShowsRow(slots, tbl, team, key) ==
  LET s == SlotAt(slots, team, key)
      row == tbl[<<team, key>>]
  IN  /\ s.booked = row.present
      /\ row.present => /\ s.playerName = row.player_name
                        /\ s.sessionId = Coalesce(row.session_id, "")

(* C18: two devices racing for red/GK. The bookings table holds one row    *)
(* per (team, key): each upsert that lands leaves that row naming its own  *)
(* claimant and touches no other row, so the row names whoever landed      *)
(* last. Neither the other device's upsert nor the settling of this        *)
(* device's upsert changes what this page shows: the claimed position      *)
(* changes only when the page is opened again or the bookings read of a    *)
(* page load is applied, and that read makes the page show the remote row, *)
(* the winner.                                                             *)
C18_RaceLastUpsertWins ==
  [][/\ \A i \in Pending :
          (i <= Len(inflight) /\ inflight[i].kind = "confirmBooking"
           /\ CompleteConfirmBooking(i, "ok"))
          => /\ RowNames(rBookings', inflight[i].team, inflight[i].key,
                         inflight[i].name, inflight[i].sid)
             /\ OtherRowsSame(rBookings, rBookings', inflight[i].team,
                              inflight[i].key)
     /\ OtherDeviceUpsert("red", "GK", <<"E">>, "Y")
          => /\ RowNames(rBookings', "red", "GK", <<"E">>, "Y")
             /\ OtherRowsSame(rBookings, rBookings', "red", "GK")
     /\ SlotAt(teamSlots', "red", "GK") # SlotAt(teamSlots, "red", "GK")
          => \/ \E typed \in RawNames : handleConfirmBooking(typed)
             \/ Reload("X")
             \/ \E i \in Pending : i <= Len(inflight) /\ CompleteLoad(i, "ok")
     /\ \A i \in Pending :
          (i <= Len(inflight) /\ inflight[i].kind = "load"
           /\ inflight[i].pc = "bookings" /\ CompleteLoad(i, "ok"))
          => ShowsRow(teamSlots', rBookings, "red", "GK")]_vars

(* the loser before its reload: the page shows this device's claim of      *)
(* red/GK, every request has settled, and the remote row names device Y's  *)
(* player                                                                  *)
C18_Witness ==
  /\ inflight = <<>>
  /\ SlotAt(teamSlots, "red", "GK").booked
  /\ SlotAt(teamSlots, "red", "GK").sessionId = sessionId
  /\ RowNames(rBookings, "red", "GK", <<"E">>, "Y")


(* C19: promotion is one local step. The step of a permitted cancel of a   *)
(* booked position while the bench is not empty leads straight to a state  *)
(* in which the position is booked, its occupant is the head entry's       *)
(* player, and no entry with the head's id is left in the queue: no state  *)
(* shows the position unbooked, the promoted player in both places, or in  *)
(* neither.                                                                *)
C19_PromotionIsOneStep ==
  [][\A team \in Teams, key \in ActiveKeys, force \in BOOLEAN :
       (bench # <<>> /\ SlotAt(teamSlots, team, key).booked
        /\ CancelPermitted(team, key, force)
        /\ handleCancelBooking(team, key, force))
       => /\ SlotAt(teamSlots', team, key).booked
          /\ SlotAt(teamSlots', team, key).playerName = Head(bench).playerName
          /\ \A j \in 1..Len(bench') : bench'[j].id # Head(bench).id
          /\ Len(bench') < Len(bench)]_vars

(* right after a promotion into a position the load had found booked: the  *)
(* promoted player occupies it and has left the queue                      *)
C19_Witness ==
  \E i \in 1..Len(inflight) :
    /\ inflight[i].kind = "cancel" /\ inflight[i].pc = "upsert"
    /\ HandlerTasks = {i}
    /\ dbStatus = "ready"
    /\ rBookings[<<inflight[i].team, inflight[i].key>>].present
    /\ SlotAt(teamSlots, inflight[i].team, inflight[i].key).booked
    /\ SlotAt(teamSlots, inflight[i].team, inflight[i].key).playerName
         = inflight[i].name
    /\ \A j \in 1..Len(bench) : bench[j].id # inflight[i].id


(* C20: the remote requests of a permitted cancel mirror its local         *)
(* outcome. With a promotion the cancel issues one upsert of the head      *)
(* entry's name and device keyed by (team, key), and when that upsert has  *)
(* returned, one bench delete keyed by the head entry's id, which is the   *)
(* id of its bench row; without a promotion it issues one delete of the    *)
(* position row keyed by (team, key) and nothing else.                     *)
C20_CancelRequestsMirrorOutcome ==
  [][/\ \A team \in Teams, key \in ActiveKeys, force \in BOOLEAN :
          (CancelPermitted(team, key, force)
           /\ handleCancelBooking(team, key, force))
          => /\ Len(inflight') = Len(inflight) + 1
             /\ SubSeq(inflight', 1, Len(inflight)) = inflight
             /\ LET t == inflight'[Len(inflight')] IN
                /\ t.kind = "cancel" /\ t.team = team /\ t.key = key
                /\ IF bench # <<>>
                   THEN /\ t.pc = "upsert"
                        /\ t.name = Head(bench).playerName
                        /\ t.sid = Head(bench).sessionId
                        /\ t.id = Head(bench).id
                        /\ ~IsTemporary(t.id)
                   ELSE t.pc = "delete"
     /\ \A i \in Pending, res \in {"ok", "error"} :
          (i <= Len(inflight) /\ inflight[i].kind = "cancel"
           /\ CompleteCancel(i, res))
          => IF inflight[i].pc = "upsert"
             THEN /\ Len(inflight') = Len(inflight)
                  /\ inflight'[i] = [inflight[i] EXCEPT !.pc = "benchDelete"]
             ELSE inflight' = RemoveAt(inflight, i)]_vars


(* the step is the successful settling of the read pc of a page load *)
LoadReadOk(pc) ==
  \E i \in Pending :
    /\ i <= Len(inflight)
    /\ inflight[i].kind = "load"
    /\ inflight[i].pc = pc
    /\ CompleteLoad(i, "ok")

(* slot s shows what the remote table holds for its position *)
MirrorsRow(s, row) ==
  IF row.present
  THEN /\ s.booked
       /\ s.playerName = row.player_name
       /\ s.rating = row.rating
       /\ s.tags = (IF row.tags = NullTags THEN <<>> ELSE row.tags)
       /\ s.note = (IF row.note = NullV THEN "" ELSE row.note)
       /\ s.paymentStatus =
            (IF row.payment_status = NullV THEN "unpaid" ELSE row.payment_status)
       /\ s.sessionId = (IF row.session_id = NullV THEN "" ELSE row.session_id)
  ELSE HasDefaults(s)

(* C21: a page load whose reads succeed makes local state the remote       *)
(* state. The bookings read leaves every position (team, key) booked iff   *)
(* the table holds a row for it, with occupant, rating, tags, note,        *)
(* payment status and owner from the row (null replaced by no tags, empty  *)
(* note, unpaid, no owner), and every other position empty with default    *)
(* fields; the bench read leaves the bench equal to the bench rows in      *)
(* ascending id order; the later reads leave the positions alone.          *)
C21_LoadMirrorsRemote ==
  [][/\ LoadReadOk("bookings")
          => \A team \in Teams, key \in Keys :
               MirrorsRow(SlotAt(teamSlots', team, key), rBookings[<<team, key>>])
     /\ LoadReadOk("match") => UNCHANGED <<teamSlots, bench>>
     /\ LoadReadOk("bench")
          => /\ UNCHANGED teamSlots
             /\ Len(bench') = Len(rBench)
             /\ \A j \in 1..Len(rBench) :
                  /\ bench'[j].id = rBench[j].id
                  /\ bench'[j].playerName = rBench[j].player_name
                  /\ bench'[j].sessionId = rBench[j].session_id
             /\ \A j, k \in 1..Len(bench') : j < k => bench'[j].id < bench'[k].id]_vars

(* the page after a load that read the bookings of other devices and this *)
(* device's bench row next to theirs                                       *)
C21_Witness ==
  /\ dbStatus = "ready"
  /\ \A team \in Teams, key \in Keys :
       MirrorsRow(SlotAt(teamSlots, team, key), rBookings[<<team, key>>])
  /\ SlotAt(teamSlots, "red", "GK").booked
  /\ Len(bench) = 2
  /\ Len(rBench) = 2
  /\ \A j \in 1..Len(bench) : bench[j].id = rBench[j].id


(* the step is the settling with result res of the read pc of a page load *)
LoadRead(pc, res) ==
  \E i \in Pending :
    /\ i <= Len(inflight)
    /\ inflight[i].kind = "load"
    /\ inflight[i].pc = pc
    /\ CompleteLoad(i, res)

(* a page load has a read pending *)
LoadPending(q) == \E i \in 1..Len(q) : q[i].kind = "load"

(* C22: load failures are graded. A failing bookings read (an error or an  *)
(* exception) ends the load in status error: positions, bench and match    *)
(* details stay as they were and no further read is issued. After a        *)
(* bookings read that succeeded, a failing match read leaves the match     *)
(* details as they were and the load goes on to the bench read; a failing  *)
(* bench read leaves the bench as it was; and the load ends in status      *)
(* ready whatever these two reads returned, the hydrated positions kept.   *)
C22_LoadFailuresGraded ==
  [][\A res \in Results :
       /\ (res # "ok" /\ LoadRead("bookings", res))
            => /\ dbStatus' = "error"
               /\ UNCHANGED <<teamSlots, bench, matchInfo>>
               /\ ~LoadPending(inflight')
       /\ LoadRead("match", res)
            => /\ UNCHANGED <<teamSlots, bench, dbStatus>>
               /\ res # "ok" => UNCHANGED matchInfo
               /\ \E i \in 1..Len(inflight') :
                    inflight'[i].kind = "load" /\ inflight'[i].pc = "bench"
       /\ LoadRead("bench", res)
            => /\ UNCHANGED <<teamSlots, matchInfo>>
               /\ res # "ok" => UNCHANGED bench
               /\ dbStatus' = "ready"
               /\ ~LoadPending(inflight')]_vars

(* a load that ended ready although its bench read failed: the positions   *)
(* show the remote rows, the bench is empty while the remote bench is not  *)
C22_Witness ==
  /\ dbStatus = "ready"
  /\ ~LoadPending(inflight)
  /\ SlotAt(teamSlots, "red", "GK").booked
  /\ bench = <<>>
  /\ rBench # <<>>
  /\ matchInfo = DefaultMatch


(* local state shows the outcome of the operation whose first request is t *)
LocalShowsOutcome(slots, q, t) ==
  CASE t.kind = "confirmBooking" ->
         /\ SlotAt(slots, t.team, t.key).booked
         /\ SlotAt(slots, t.team, t.key).playerName = t.name
         /\ SlotAt(slots, t.team, t.key).sessionId = t.sid
    [] t.kind = "cancel" /\ t.pc = "upsert" ->
         /\ SlotAt(slots, t.team, t.key).booked
         /\ SlotAt(slots, t.team, t.key).playerName = t.name
         /\ \A j \in 1..Len(q) : q[j].id # t.id
    [] t.kind = "cancel" /\ t.pc = "delete" ->
         HasDefaults(SlotAt(slots, t.team, t.key))
    [] t.kind = "benchJoin" ->
         /\ q # <<>>
         /\ q[Len(q)] = [id |-> t.id, playerName |-> t.name, sessionId |-> t.sid]
    [] t.kind = "benchLeave" ->
         \A j \in 1..Len(q) : q[j].id # t.id
    [] t.kind = "update" ->
         \A c \in DOMAIN t.payload :
           SlotAt(slots, t.team, t.key)
             [IF c = "payment_status" THEN "paymentStatus" ELSE c] = t.payload[c]
    [] t.kind = "reset" ->
         /\ \A p \in Positions : HasDefaults(slots[p[1]][p[2]])
         /\ q = <<>>
    [] OTHER -> TRUE

(* C23: local first. In the step in which a claim, cancel, bench join,     *)
(* bench leave, metadata update or reset issues its remote request, local  *)
(* state already shows the outcome of the operation: no request of these   *)
(* operations becomes pending while the position or the bench still shows  *)
(* the value from before the operation.                                    *)
C23_LocalChangeBeforeRequest ==
  [][(Len(inflight') = Len(inflight) + 1
      /\ inflight'[Len(inflight')].kind \in RemoteKinds)
     => LocalShowsOutcome(teamSlots', bench', inflight'[Len(inflight')])]_vars

(* a claim whose upsert is pending and has not reached the table: the page *)
(* shows the booking already                                               *)
C23_Witness ==
  \E i \in 1..Len(inflight) :
    /\ inflight[i].kind = "confirmBooking"
    /\ ~rBookings[<<inflight[i].team, inflight[i].key>>].present
    /\ LocalShowsOutcome(teamSlots, bench, inflight[i])


(* the positions of a team that local state shows booked *)
BookedPlaces(team) == {i \in 1..Len(teamSlots[team]) : teamSlots[team][i].booked}

(* C24: in every reachable state the aggregates of the stats memo agree    *)
(* with the positions: each team's total is 9, its booked count is the     *)
(* number of its positions with booked = true, booked + remaining = 9, and *)
(* the overall total is the sum of the two booked counts, within 0..18.    *)
C24_StatsAgreeWithPositions ==
  /\ \A team \in Teams :
       /\ build(team).total = 9
       /\ build(team).bookedCount = Cardinality(BookedPlaces(team))
       /\ build(team).bookedCount + build(team).remaining = 9
       /\ build(team).remaining \in 0..9
  /\ stats.red = build("red")
  /\ stats.green = build("green")
  /\ stats.totalAll = Cardinality(BookedPlaces("red")) + Cardinality(BookedPlaces("green"))
  /\ stats.totalAll \in 0..18

(* one position booked in each team: 2 of 18, 8 remaining in each team *)
C24_Witness ==
  /\ stats.totalAll = 2
  /\ stats.red.remaining = 8
  /\ stats.green.remaining = 8


(* the other team *)
OtherTeam(team) == IF team = "red" THEN "green" ELSE "red"

(* C25: in every reachable state each of the two teams holds exactly the   *)
(* nine base positions in their fixed order, label and line unchanged,     *)
(* also after hydration from rows of an unknown team or key; and a claim,  *)
(* a cancel or a metadata update of a position of one team leaves every    *)
(* position of the other team as it was (the operation and its team are    *)
(* those of the request the step issues).                                  *)
C25_NinePositionsPerTeam ==
  /\ [](/\ DOMAIN teamSlots = Teams
        /\ \A team \in Teams :
             /\ Len(teamSlots[team]) = Len(baseSlots)
             /\ \A i \in 1..Len(baseSlots) :
                  /\ teamSlots[team][i].key = baseSlots[i].key
                  /\ teamSlots[team][i].label = baseSlots[i].label
                  /\ teamSlots[team][i].line = baseSlots[i].line
        /\ <<teamSlots["red"][1].key, teamSlots["red"][2].key,
             teamSlots["red"][3].key, teamSlots["red"][4].key,
             teamSlots["red"][5].key, teamSlots["red"][6].key,
             teamSlots["red"][7].key, teamSlots["red"][8].key,
             teamSlots["red"][9].key>>
             = <<"GK", "LB", "CB1", "CB2", "RB", "CM1", "CM2", "CAM", "ST">>)
  /\ [][(Len(inflight') = Len(inflight) + 1
         /\ inflight'[Len(inflight')].kind \in {"confirmBooking", "cancel", "update"})
        => teamSlots'[OtherTeam(inflight'[Len(inflight')].team)]
             = teamSlots[OtherTeam(inflight'[Len(inflight')].team)]]_vars

(* the page after it read a table holding a row of team blue and a row of  *)
(* key XX: only the row of green/LB shows                                  *)
C25_Witness ==
  /\ rBookings[<<"blue", "GK">>].present
  /\ rBookings[<<"red", "XX">>].present
  /\ dbStatus = "ready"
  /\ SlotAt(teamSlots, "green", "LB").booked
  /\ SlotAt(teamSlots, "green", "LB").playerName = <<"C">>
  /\ stats.totalAll = 1


(* the settling of a pending request of this kind, with any result *)
Settles(kind) ==
  /\ Len(inflight') = Len(inflight) - 1
  /\ \E i \in 1..Len(inflight) :
       inflight[i].kind = kind /\ inflight' = RemoveAt(inflight, i)

(* C26: the privilege flag becomes true only when the session lookup of a  *)
(* page load found a session or a sign-in with the right credentials       *)
(* returned without error; it is false after the sign-out request has      *)
(* settled and after a sign-in that failed or threw; and it changes in no  *)
(* other step of a page (opening the page again starts it at false).       *)
C26_PrivilegeFollowsSession ==
  [][/\ (~isAdminLoggedIn /\ isAdminLoggedIn')
          => \/ \E i \in Pending :
                  /\ i <= Len(inflight)
                  /\ sessionId \in authStored
                  /\ CompleteCheckSession(i, "ok")
             \/ \E i \in Pending :
                  /\ i <= Len(inflight) /\ inflight[i].kind = "login"
                  /\ inflight[i].payload.valid
                  /\ CompleteLogin(i, "ok")
     /\ Settles("logout") => ~isAdminLoggedIn'
     /\ \A i \in Pending, res \in Results :
          (i <= Len(inflight) /\ inflight[i].kind = "login"
           /\ (res # "ok" \/ ~inflight[i].payload.valid)
           /\ CompleteLogin(i, res))
          => ~isAdminLoggedIn'
     /\ isAdminLoggedIn' # isAdminLoggedIn
          => \/ Settles("checkSession") \/ Settles("login") \/ Settles("logout")
             \/ loads' # loads]_vars


C29_PromotedStartsClean ==
  [][\A team \in Teams, key \in ActiveKeys, force \in BOOLEAN :
       (bench # <<>> /\ CancelPermitted(team, key, force)
        /\ handleCancelBooking(team, key, force))
       => /\ SlotAt(teamSlots', team, key).rating = NoRating
          /\ SlotAt(teamSlots', team, key).tags = <<>>
          /\ SlotAt(teamSlots', team, key).note = ""
          /\ SlotAt(teamSlots', team, key).paymentStatus = "unpaid"]_vars

(* red/ST right after the promotion, the page load done: the remote row    *)
(* still carries the previous occupant's rating and payment, the page      *)
(* shows the substitute without them                                       *)
C29_Witness ==
  /\ dbStatus = "ready"
  /\ \E i \in 1..Len(inflight) :
       /\ inflight[i].kind = "cancel" /\ inflight[i].pc = "upsert"
       /\ inflight[i].team = "red" /\ inflight[i].key = "ST"
       /\ SlotAt(teamSlots, "red", "ST").playerName = inflight[i].name
  /\ rBookings[<<"red", "ST">>].present
  /\ rBookings[<<"red", "ST">>].rating = 7
  /\ rBookings[<<"red", "ST">>].payment_status = "paid"
  /\ SlotAt(teamSlots, "red", "ST").booked
  /\ SlotAt(teamSlots, "red", "ST").rating = NoRating
  /\ SlotAt(teamSlots, "red", "ST").paymentStatus = "unpaid"


(* C30: one device, every remote call succeeding. When the last request of *)
(* a cancel with promotion has completed, no other request of a handler is *)
(* pending and the page still shows the promoted player, the remote row of *)
(* the position agrees with the local position on occupant, owner,         *)
(* rating, tags, note and payment status.                                  *)
C30_RemoteRowAgreesAfterPromotion ==
  [][\A i \in Pending :
       (i <= Len(inflight) /\ HandlerTasks = {i}
        /\ inflight[i].kind = "cancel" /\ inflight[i].pc = "benchDelete"
        /\ SlotAt(teamSlots, inflight[i].team, inflight[i].key).booked
        /\ SlotAt(teamSlots, inflight[i].team, inflight[i].key).playerName
             = inflight[i].name
        /\ CompleteCancel(i, "ok"))
       => MirrorsRow(SlotAt(teamSlots', inflight[i].team, inflight[i].key),
                     rBookings'[<<inflight[i].team, inflight[i].key>>])]_vars


(* the bench join whose insert is pending at place i was removed from the  *)
(* local queue by a leave or by a promotion while it carried its temporary *)
(* id t: a request issued after the insert (a bench delete, or the upsert  *)
(* that precedes one) names t                                              *)
RemovedBeforeInsert(i, t) ==
  /\ i \in 1..Len(inflight)
  /\ inflight[i].kind = "benchJoin"
  /\ inflight[i].id = t
  /\ \E j \in (i + 1)..Len(inflight) :
       /\ inflight[j].kind \in {"benchLeave", "cancel"}
       /\ inflight[j].pc \in {"delete", "upsert", "benchDelete"}
       /\ inflight[j].id = t

(* the remote bench holds no row of this device, one insert is pending and *)
(* will be handed the id n, its entry was removed locally under its        *)
(* temporary id, and the user does nothing more                            *)
RemovedWhileTemporary(t, n) ==
  /\ ops = MaxOps
  /\ rNextId = n
  /\ \A k \in 1..Len(rBench) : rBench[k].session_id # sessionId
  /\ \E i \in 1..Len(inflight) :
       /\ RemovedBeforeInsert(i, t)
       /\ \A k \in 1..Len(inflight) : inflight[k].kind = "benchJoin" => k = i

(* the insert that was handed the id n has been made and the remote bench  *)
(* holds no row with that id                                               *)
AbsentRemotely(n) ==
  /\ rNextId > n
  /\ \A k \in 1..Len(rBench) : rBench[k].id # n

(* C31: with every remote call succeeding, a bench entry that a leave or a *)
(* promotion removed from the local queue while its own insert was still   *)
(* pending (so while it carried its temporary id) is eventually absent     *)
(* from the remote bench table, whichever of the insert and the delete     *)
(* completes first.                                                        *)
C31_RemovedEntryEventuallyAbsent ==
  \A t \in {TempBase + c : c \in 0..MaxClock}, n \in 1..MaxBenchId :
    RemovedWhileTemporary(t, n) ~> AbsentRemotely(n)


(* the requests that write a promotion to the gateway: the upsert of the   *)
(* promoted player and the delete of the bench row                         *)
PromotionRequests(q) ==
  {i \in 1..Len(q) : q[i].kind = "cancel" /\ q[i].pc \in {"upsert", "benchDelete"}}

HeldHere(slots, p) ==
  /\ slots[p[1]][p[2]].booked
  /\ slots[p[1]][p[2]].sessionId = sessionId

(* C33: what the user did while the page load was pending survives the     *)
(* load. When the bookings read of the load is applied, every position     *)
(* this device claimed since the page was opened is still booked by it;    *)
(* when the bench read is applied, every entry this device joined since    *)
(* the page was opened is still in the bench.                              *)
C33_LoadKeepsLocalClaims ==
  [][\A i \in Pending :
       (i <= Len(inflight) /\ inflight[i].kind = "load"
        /\ CompleteLoad(i, "ok"))
       => /\ inflight[i].pc = "bookings"
             => \A p \in Positions : HeldHere(teamSlots, p) => HeldHere(teamSlots', p)
          /\ inflight[i].pc = "bench"
             => \A j \in 1..Len(bench) :
                  bench[j].sessionId = sessionId
                  => \E k \in 1..Len(bench') :
                       /\ bench'[k].sessionId = sessionId
                       /\ bench'[k].playerName = bench[j].playerName]_vars

====
